---------------------------- MODULE Spec2Model ----------------------------
(***************************************************************************)
(* A model of the CSG engine of src/src/utils/CSG.js: Vector, Vertex,      *)
(* Plane, Polygon, Node (the BSP tree) and CSG (the boolean operators and  *)
(* fromGeometry).                                                          *)
(*                                                                         *)
(* Numbers.  The code computes in IEEE doubles.  The model computes in     *)
(* exact rational arithmetic: a number is a pair <<n, d>> with d > 0 and   *)
(* gcd(n, d) = 1.  The non-numbers of JavaScript are kept: NaN is <<0,0>>, *)
(* +-Infinity is <<+-1,0>> and undefined is <<0,-1>>; an arithmetic        *)
(* operation on any of them yields NaN and a comparison with any of them   *)
(* is false.  Rounding error is not modelled.                              *)
(*                                                                         *)
(* Unit normals.  Vector.normalize divides by a square root.  The model    *)
(* stores a unit vector n/|n| as its direction: the primitive integer      *)
(* vector d with n/|n| = d/|d| (one such d for every unit vector with      *)
(* rational direction).  A Plane [normal |-> d, w |-> k] stands for the    *)
(* plane with unit normal d/|d| and offset k/|d|.  Two planes are equal    *)
(* exactly if their stored pairs are.  A degenerate normalisation 0/0 is   *)
(* the NaN vector, as in the code.                                         *)
(*                                                                         *)
(* Objects.  Vertex and Polygon objects are mutable and can be aliased, so *)
(* they live in a heap mem = [V |-> vertices, P |-> polygons] and are      *)
(* named by their index.  An operator that allocates or mutates takes the  *)
(* heap m and returns the new heap beside its result.  Vector and Plane    *)
(* objects are never aliased (every constructor copies them), so they are  *)
(* values.  An absent value (undefined) of an object-valued field is the   *)
(* empty sequence <<>>, a present one is <<x>>.                            *)
(***************************************************************************)
EXTENDS Integers, Sequences, FiniteSets, TLC

VARIABLES
    mem,    \* the heap of Vertex and Polygon objects
    self,   \* the receiver of the call ("this")
    arg,    \* the argument(s) of the call
    op,     \* "init" before the call, the method's name after it
    ret     \* what the call returned

vars == <<mem, self, arg, op, ret>>

-----------------------------------------------------------------------------
(* Numbers *)

NaN == <<0, 0>>
Undefined == <<0, 0 - 1>>

IsNum(r) == r[2] > 0

Abs(n) == IF n < 0 THEN 0 - n ELSE n

RECURSIVE GCD(_, _)
GCD(a, b) == IF b = 0 THEN a ELSE IF a % b = 0 THEN b ELSE GCD(a % b, b % (a % b))

\* n/d in lowest terms (d # 0)
RNorm(n, d) ==
    LET g == GCD(Abs(n), Abs(d))
    IN  IF d < 0 THEN <<(0 - n) \div g, (0 - d) \div g>> ELSE <<n \div g, d \div g>>

Num(n) == <<n, 1>>

RAdd(a, b) ==
    IF ~IsNum(a) \/ ~IsNum(b) THEN NaN
    ELSE IF a[2] = 1 /\ b[2] = 1 THEN <<a[1] + b[1], 1>>
    ELSE RNorm(a[1] * b[2] + b[1] * a[2], a[2] * b[2])

RSub(a, b) ==
    IF ~IsNum(a) \/ ~IsNum(b) THEN NaN
    ELSE IF a[2] = 1 /\ b[2] = 1 THEN <<a[1] - b[1], 1>>
    ELSE RNorm(a[1] * b[2] - b[1] * a[2], a[2] * b[2])

RMul(a, b) ==
    IF ~IsNum(a) \/ ~IsNum(b) THEN NaN
    ELSE IF a[2] = 1 /\ b[2] = 1 THEN <<a[1] * b[1], 1>>
    ELSE RNorm(a[1] * b[1], a[2] * b[2])

\* a / b: x/0 is +-Infinity for x # 0 and NaN for x = 0
RDiv(a, b) ==
    IF ~IsNum(a) \/ ~IsNum(b) THEN NaN
    ELSE IF b[1] = 0 THEN (IF a[1] > 0 THEN <<1, 0>> ELSE IF a[1] < 0 THEN <<0 - 1, 0>> ELSE NaN)
    ELSE RNorm(a[1] * b[2], a[2] * b[1])

\* a > 0, false of a non-number
RPos(a) == IsNum(a) /\ a[1] > 0

\* The sequence a function on 1..n is, with its elements computed
ToSeq(f) == <<>> \o f

\* The value e, computed after the record x: TLC computes the argument of
\* an operator when it is first read, and a loop that only hands the heap
\* on would otherwise delay all its steps to its end.
Do(x, e) == CASE DOMAIN x # {} -> e

-----------------------------------------------------------------------------
(* Vector: <<x, y, z>> *)

IsNumVec(v) == IsNum(v[1]) /\ IsNum(v[2]) /\ IsNum(v[3])

\* Vector.negate: every component times -1
VNegate(v) == ToSeq([i \in 1..3 |-> RMul(v[i], Num(0 - 1))])

VSub(a, b) == ToSeq([i \in 1..3 |-> RSub(a[i], b[i])])

\* Vector.lerp: this.add(tv0.copy(a).sub(this).times(t))
VLerp(this, a, t) ==
    LET VAdd(x, y) == ToSeq([i \in 1..3 |-> RAdd(x[i], y[i])])
        VTimes(x, u) == ToSeq([i \in 1..3 |-> RMul(x[i], u)])
    IN  VAdd(this, VTimes(VSub(a, this), t))

VCross(a, b) ==
    << RSub(RMul(a[2], b[3]), RMul(a[3], b[2])),
       RSub(RMul(a[3], b[1]), RMul(a[1], b[3])),
       RSub(RMul(a[1], b[2]), RMul(a[2], b[1])) >>

VDot(a, b) == RAdd(RAdd(RMul(a[1], b[1]), RMul(a[2], b[2])), RMul(a[3], b[3]))

\* Vector.unit / normalize: this.dividedBy(this.length()).  The unit vector
\* is stored as its direction, the primitive integer vector; a zero-length
\* or non-number vector gives 0/0 = NaN in every component.
VNormalize(v) ==
    IF ~IsNumVec(v) \/ (v[1][1] = 0 /\ v[2][1] = 0 /\ v[3][1] = 0) THEN <<NaN, NaN, NaN>>
    ELSE LET LCM(a, b) == (a \div GCD(a, b)) * b
             l == LCM(LCM(v[1][2], v[2][2]), v[3][2])
             x == v[1][1] * (l \div v[1][2])
             y == v[2][1] * (l \div v[2][2])
             z == v[3][1] * (l \div v[3][2])
             g == GCD(GCD(Abs(x), Abs(y)), Abs(z))
         IN  <<Num(x \div g), Num(y \div g), Num(z \div g)>>

\* The length |d| a direction d was divided by, rounded up to an integer
NormCeil(d) ==
    LET s == d[1][1] * d[1][1] + d[2][1] * d[2][1] + d[3][1] * d[3][1]
    IN  CHOOSE k \in 0..(s + 1) \div 2 + 1 : k * k >= s /\ (k = 0 \/ (k - 1) * (k - 1) < s)

-----------------------------------------------------------------------------
(* Absent and present values *)

None == <<>>
Some(x) == <<x>>
IsSome(o) == Len(o) = 1

EmptyMem == [V |-> <<>>, P |-> <<>>]

\* The elements of an array
Range(s) == {s[i] : i \in DOMAIN s}

-----------------------------------------------------------------------------
(* Vertex: [pos, normal, uv, color], uv and color absent or present *)

\* new Vertex(pos, normal, uv, color): every vector is copied, uv.z is set to 0
NewVertex(m, pos, normal, uv, color) ==
    LET v == [pos |-> pos, normal |-> normal,
              uv |-> IF IsSome(uv) THEN Some(<<uv[1][1], uv[1][2], Num(0)>>) ELSE None,
              color |-> color]
    IN  [m |-> [m EXCEPT !.V = Append(@, v)], id |-> Len(m.V) + 1]

VertexClone(m, vid) ==
    NewVertex(m, m.V[vid].pos, m.V[vid].normal, m.V[vid].uv, m.V[vid].color)

\* Vertex.interpolate(other, t): uv and color only if both vertices have one
VertexInterpolate(m, vid, other, t) ==
    LET a == m.V[vid]
        b == m.V[other]
    IN  NewVertex(m, VLerp(a.pos, b.pos, t), VLerp(a.normal, b.normal, t),
                  IF IsSome(a.uv) /\ IsSome(b.uv) THEN Some(VLerp(a.uv[1], b.uv[1], t)) ELSE None,
                  IF IsSome(a.color) /\ IsSome(b.color)
                      THEN Some(VLerp(a.color[1], b.color[1], t)) ELSE None)

-----------------------------------------------------------------------------
(* Plane: [normal, w] *)

COPLANAR == 0
FRONT == 1
BACK == 2
SPANNING == 3

\* Plane.EPSILON = 1e-5 = 1 / EpsilonInv
EpsilonInv == 100000

\* Plane.flip
PlaneFlip(pl) == [normal |-> VNegate(pl.normal), w |-> RMul(pl.w, Num(0 - 1))]

\* Plane.fromPoints(a, b, c): n = normalize((b - a) x (c - a)) and the
\* plane is new Plane(n, n.dot(a))
PlaneFromPoints(a, b, c) ==
    LET n == VNormalize(VCross(VSub(b, a), VSub(c, a)))
    IN  [normal |-> n, w |-> VDot(n, a)]

\* t < -EPSILON ? BACK : t > EPSILON ? FRONT : COPLANAR.  The stored normal
\* and w are |d| times the unit normal and the offset, so t is compared
\* with EPSILON * |d|, the length taken rounded up.
TypeOf(t, normal) ==
    IF ~IsNum(t) \/ t[1] = 0 THEN COPLANAR
    ELSE LET e == t[2] * NormCeil(normal)
         IN  IF t[1] * EpsilonInv < 0 - e THEN BACK
             ELSE IF t[1] * EpsilonInv > e THEN FRONT
             ELSE COPLANAR

\* The type of one vertex position: that of t = normal.pos - w
VertexType(pl, pos) == TypeOf(RSub(VDot(pl.normal, pos), pl.w), pl.normal)

\* types[i] of every vertex of a polygon
VertexTypes(m, pl, vertices) ==
    ToSeq([i \in 1..Len(vertices) |-> VertexType(pl, m.V[vertices[i]].pos)])

\* a | b for two-bit values
BitOr(a, b) ==
    (IF a \div 2 = 1 \/ b \div 2 = 1 THEN 2 ELSE 0) + (IF a % 2 = 1 \/ b % 2 = 1 THEN 1 ELSE 0)

\* polygonType: the bitwise OR of the vertex types from index i on
RECURSIVE PolygonType(_, _)
PolygonType(types, i) ==
    IF i > Len(types) THEN COPLANAR ELSE BitOr(types[i], PolygonType(types, i + 1))

-----------------------------------------------------------------------------
(* Polygon: [vertices, shared, plane] *)

\* new Polygon(vertices, shared): the plane of the first three vertices
NewPolygon(m, vertices, shared) ==
    [m |-> [m EXCEPT !.P = Append(@, [vertices |-> vertices, shared |-> shared,
                                      plane |-> PlaneFromPoints(m.V[vertices[1]].pos,
                                                                m.V[vertices[2]].pos,
                                                                m.V[vertices[3]].pos)])],
     id |-> Len(m.P) + 1]

\* vertices.map((v) => v.clone()): the clones, in order, are the next
\* objects of the heap
CloneVertices(m, vertices) ==
    [m |-> [m EXCEPT !.V = @ \o [i \in 1..Len(vertices) |->
                                    NewVertex(EmptyMem, m.V[vertices[i]].pos,
                                              m.V[vertices[i]].normal, m.V[vertices[i]].uv,
                                              m.V[vertices[i]].color).m.V[1]]],
     ids |-> ToSeq([i \in 1..Len(vertices) |-> Len(m.V) + i])]

\* Polygon.clone: new Polygon(c, this.shared) for the cloned vertices c
PolygonClone(m, pid) ==
    LET c == CloneVertices(m, m.P[pid].vertices)
    IN  NewPolygon(c.m, c.ids, m.P[pid].shared)

\* A reversal gone wrong: the array rotated by one
ReverseRotated(s) == Tail(s) \o <<Head(s)>>

Reverse(s) == ToSeq([i \in 1..Len(s) |-> s[Len(s) + 1 - i]])

\* forEach((v) => v.flip()) over the vertex array; Vertex.flip negates the
\* normal in place
RECURSIVE FlipVertices(_, _, _)
FlipVertices(m, vertices, i) ==
    IF i > Len(vertices) THEN m
    ELSE Do(m, FlipVertices([m EXCEPT !.V[vertices[i]].normal = VNegate(@)], vertices, i + 1))

\* Polygon.flip: this.vertices.reverse().forEach((v) => v.flip()), which
\* reverses the vertex array in place and flips every vertex, and then
\* this.plane.flip()
PolygonFlip(m, pid) ==
    LET r == Reverse(m.P[pid].vertices)
    IN  [FlipVertices([m EXCEPT !.P[pid].vertices = r], r, 1) EXCEPT !.P[pid].plane = PlaneFlip(@)]

-----------------------------------------------------------------------------
(* Plane.splitPolygon.  The loops of the code are modelled as the steps     *)
(* lo .. hi taken in order on a state s that holds the heap and the arrays  *)
(* being filled; a range of more than one step is its first half followed   *)
(* by its second half.                                                      *)

\* if (ti != BACK) f.push(vi); if (ti != FRONT) b.push(ti != BACK ? vi.clone() : vi);
\* s.f and s.b are the arrays f and b
SplitKeep(s, ti, vi) ==
    IF ti = FRONT THEN [s EXCEPT !.f = Append(@, vi)]
    ELSE IF ti = BACK THEN [s EXCEPT !.b = Append(@, vi)]
    ELSE [m |-> VertexClone(s.m, vi).m, f |-> Append(s.f, vi),
          b |-> Append(s.b, Len(s.m.V) + 1)]

\* A t that is always the middle of the edge
SplitTMiddle(pl, pi, pj) == RDiv(Num(1), Num(2))

\* t = (this.w - this.normal.dot(vi.pos)) / this.normal.dot(vj.pos - vi.pos)
SplitT(pl, pi, pj) == RDiv(RSub(pl.w, VDot(pl.normal, pi)), VDot(pl.normal, VSub(pj, pi)))

\* The interpolated vertex pushed to both sides without a clone
SplitBothShared(s, v) ==
    Do(v, [m |-> v.m, f |-> Append(s.f, v.id), b |-> Append(s.b, v.id)])

\* f.push(v); b.push(v.clone())
SplitBoth(s, v) ==
    Do(v, [m |-> VertexClone(v.m, v.id).m, f |-> Append(s.f, v.id),
           b |-> Append(s.b, Len(v.m.V) + 1)])

\* if ((ti | tj) == SPANNING) { ... v = vi.interpolate(vj, t) ... }
SplitCut(s, pl, vi, vj) ==
    SplitBoth(s, VertexInterpolate(s.m, vi, vj, SplitT(pl, s.m.V[vi].pos, s.m.V[vj].pos)))

\* One iteration of the SPANNING loop, for vertex i
SplitStep(s, pl, vertices, types, i) ==
    LET j == (i % Len(vertices)) + 1
    IN  IF BitOr(types[i], types[j]) = SPANNING
        THEN SplitCut(SplitKeep(s, types[i], vertices[i]), pl, vertices[i], vertices[j])
        ELSE SplitKeep(s, types[i], vertices[i])

\* The SPANNING loop for i = lo .. hi
RECURSIVE SplitWalk(_, _, _, _, _, _)
SplitWalk(s, pl, vertices, types, lo, hi) ==
    IF lo = hi THEN SplitStep(s, pl, vertices, types, lo)
    ELSE LET l == SplitWalk(s, pl, vertices, types, lo, (lo + hi) \div 2)
         IN  Do(l, SplitWalk(l, pl, vertices, types, (lo + hi) \div 2 + 1, hi))

\* What a call of splitPolygon that pushes nothing returns
NoSplit(m) ==
    [m |-> m, coplanarFront |-> <<>>, coplanarBack |-> <<>>, front |-> <<>>, back |-> <<>>]

\* The pushes on front and back after the SPANNING loop
SplitPushed(f, b) == Do(f, [NoSplit(b.m) EXCEPT !.front = f.ids, !.back = b.ids])

\* The new polygon as the one element pushed
OnePolygon(p) == [m |-> p.m, ids |-> <<p.id>>]

\* if (vertices.length >= 3) list.push(new Polygon(vertices, polygon.shared))
PolygonIf(m, vertices, shared) ==
    IF Len(vertices) >= 3 THEN OnePolygon(NewPolygon(m, vertices, shared))
    ELSE [m |-> m, ids |-> <<>>]

\* if (b.length >= 3) back.push(new Polygon(b, polygon.shared))
SplitBack(w, f, shared) == Do(f, SplitPushed(f, PolygonIf(f.m, w.b, shared)))

\* if (f.length >= 3) front.push(new Polygon(f, polygon.shared))
SplitFront(w, shared) == Do(w, SplitBack(w, PolygonIf(w.m, w.f, shared), shared))

\* The switch on polygonType
SplitByType(m, pl, pid, types) ==
    LET polygonType == PolygonType(types, 1)
    IN  IF polygonType = COPLANAR
        THEN IF RPos(VDot(pl.normal, m.P[pid].plane.normal))
             THEN [NoSplit(m) EXCEPT !.coplanarFront = <<pid>>]
             ELSE [NoSplit(m) EXCEPT !.coplanarBack = <<pid>>]
        ELSE IF polygonType = FRONT THEN [NoSplit(m) EXCEPT !.front = <<pid>>]
        ELSE IF polygonType = BACK THEN [NoSplit(m) EXCEPT !.back = <<pid>>]
        ELSE SplitFront(SplitWalk([m |-> m, f |-> <<>>, b |-> <<>>], pl, m.P[pid].vertices,
                                  types, 1, Len(types)),
                        m.P[pid].shared)

\* plane.splitPolygon(polygon, coplanarFront, coplanarBack, front, back):
\* the new heap and what the call pushes on each of its four lists
SplitPolygon(m, pl, pid) == SplitByType(m, pl, pid, VertexTypes(m, pl, m.P[pid].vertices))

-----------------------------------------------------------------------------
(* Node: [plane, polygons, front, back]; plane, front and back absent or   *)
(* present.  A node is owned by its parent alone, so a tree is a value.    *)

EmptyNode == [plane |-> None, polygons |-> <<>>, front |-> None, back |-> None]

\* splitPolygon(polygon, this.polygons, this.polygons, front, back);
\* s.own is this.polygons, s.front and s.back are the two local lists
BuildPush(s, r) ==
    [m |-> r.m, own |-> s.own \o r.coplanarFront \o r.coplanarBack,
     front |-> s.front \o r.front, back |-> s.back \o r.back]

\* One iteration of Node.build's loop
BuildStep(s, pl, pid) == BuildPush(s, SplitPolygon(s.m, pl, pid))

\* Node.build's loop for i = lo .. hi
RECURSIVE BuildSplit(_, _, _, _, _)
BuildSplit(s, pl, polygons, lo, hi) ==
    IF lo = hi THEN BuildStep(s, pl, polygons[lo])
    ELSE LET l == BuildSplit(s, pl, polygons, lo, (lo + hi) \div 2)
         IN  Do(l, BuildSplit(l, pl, polygons, (lo + hi) \div 2 + 1, hi))

RECURSIVE Build(_, _, _)

\* if (!child) child = new Node()
Child(child) == IF IsSome(child) THEN child[1] ELSE EmptyNode

\* The node after build: s is the loop's result, f and b are what the
\* builds of the front and back subtrees returned
Built(node, pl, s, f, b) ==
    Do(b, [m |-> b.m,
           node |-> [plane |-> Some(pl), polygons |-> s.own,
                     front |-> IF Len(s.front) > 0 THEN Some(f.node) ELSE node.front,
                     back |-> IF Len(s.back) > 0 THEN Some(b.node) ELSE node.back]])

\* if (back.length) { ...; this.back.build(back) }
BuildBack(node, pl, s, f) ==
    Do(f, Built(node, pl, s, f,
                IF Len(s.back) > 0 THEN Build(f.m, Child(node.back), s.back)
                ELSE [m |-> f.m, node |-> None]))

\* if (front.length) { ...; this.front.build(front) }
BuildFront(node, pl, s) ==
    Do(s, BuildBack(node, pl, s,
                    IF Len(s.front) > 0 THEN Build(s.m, Child(node.front), s.front)
                    ELSE [m |-> s.m, node |-> None]))

\* Node.build(polygons)
Build(m, node, polygons) ==
    IF Len(polygons) = 0 THEN [m |-> m, node |-> node]
    ELSE LET pl == IF IsSome(node.plane) THEN node.plane[1] ELSE m.P[polygons[1]].plane
         IN  BuildFront(node, pl,
                        BuildSplit([m |-> m, own |-> node.polygons, front |-> <<>>,
                                    back |-> <<>>], pl, polygons, 1, Len(polygons)))

\* new Node(polygons)
NewNode(m, polygons) == Build(m, EmptyNode, polygons)

\* polygons[i].flip() for i = lo .. hi
RECURSIVE FlipPolygons(_, _, _, _)
FlipPolygons(m, polygons, lo, hi) ==
    IF lo > hi THEN m
    ELSE IF lo = hi THEN PolygonFlip(m, polygons[lo])
    ELSE LET l == FlipPolygons(m, polygons, lo, (lo + hi) \div 2)
         IN  Do(l, FlipPolygons(l, polygons, (lo + hi) \div 2 + 1, hi))

RECURSIVE AllPolygons(_)

\* An allPolygons() that forgets the back subtree
AllPolygonsFrontOnly(node) ==
    node.polygons \o (IF IsSome(node.front) THEN AllPolygons(node.front[1]) ELSE <<>>)

\* Node.allPolygons()
AllPolygons(node) ==
    node.polygons
        \o (IF IsSome(node.front) THEN AllPolygons(node.front[1]) ELSE <<>>)
        \o (IF IsSome(node.back) THEN AllPolygons(node.back[1]) ELSE <<>>)

\* An invert that flips every plane and leaves front and back where they are
RECURSIVE InvertTreeUnswapped(_)
InvertTreeUnswapped(node) ==
    [plane |-> IF IsSome(node.plane) THEN Some(PlaneFlip(node.plane[1])) ELSE None,
     polygons |-> node.polygons,
     front |-> IF IsSome(node.front) THEN Some(InvertTreeUnswapped(node.front[1])) ELSE None,
     back |-> IF IsSome(node.back) THEN Some(InvertTreeUnswapped(node.back[1])) ELSE None]

\* Node.invert, the tree: every plane flipped, front and back swapped
RECURSIVE InvertTree(_)
InvertTree(node) ==
    [plane |-> IF IsSome(node.plane) THEN Some(PlaneFlip(node.plane[1])) ELSE None,
     polygons |-> node.polygons,
     front |-> IF IsSome(node.back) THEN Some(InvertTree(node.back[1])) ELSE None,
     back |-> IF IsSome(node.front) THEN Some(InvertTree(node.front[1])) ELSE None]

\* Node.invert: it flips the polygons of the node, then those of the front
\* subtree, then those of the back subtree, which is the order of
\* allPolygons
Invert(m, node) ==
    [m |-> FlipPolygons(m, AllPolygons(node), 1, Len(AllPolygons(node))),
     node |-> InvertTree(node)]

\* A call that takes the coplanar lists the other way round:
\* splitPolygon(polygon, back, front, front, back)
ClipPushSwapped(s, r) ==
    [m |-> r.m, front |-> s.front \o r.coplanarBack \o r.front,
     back |-> s.back \o r.coplanarFront \o r.back]

\* splitPolygon(polygon, front, back, front, back)
ClipPush(s, r) ==
    [m |-> r.m, front |-> s.front \o r.coplanarFront \o r.front,
     back |-> s.back \o r.coplanarBack \o r.back]

\* One iteration of Node.clipPolygons's loop
ClipStep(s, pl, pid) == ClipPush(s, SplitPolygon(s.m, pl, pid))

\* Node.clipPolygons's loop for i = lo .. hi
RECURSIVE ClipSplit(_, _, _, _, _)
ClipSplit(s, pl, polygons, lo, hi) ==
    IF lo > hi THEN s
    ELSE IF lo = hi THEN ClipStep(s, pl, polygons[lo])
    ELSE LET l == ClipSplit(s, pl, polygons, lo, (lo + hi) \div 2)
         IN  Do(l, ClipSplit(l, pl, polygons, (lo + hi) \div 2 + 1, hi))

RECURSIVE ClipPolygons(_, _, _)

\* A clipping that keeps the back list where there is no back subtree
ClipBackKept(node, sp, f) ==
    Do(f, IF IsSome(node.back) THEN ClipPolygons(f, node.back[1], sp.back)
          ELSE [m |-> f.m, polygons |-> f.polygons \o sp.back])

\* if (this.back) back = this.back.clipPolygons(back); else back = [];
\* return front.concat(back): f is the result so far, that of the front
ClipBack(node, sp, f) ==
    Do(f, IF IsSome(node.back) THEN ClipPolygons(f, node.back[1], sp.back) ELSE f)

\* if (this.front) front = this.front.clipPolygons(front): sp is the
\* loop's result
ClipFront(s, node, sp) ==
    Do(sp, ClipBack(node, sp,
                    IF IsSome(node.front)
                    THEN ClipPolygons([m |-> sp.m, polygons |-> s.polygons], node.front[1],
                                      sp.front)
                    ELSE [m |-> sp.m, polygons |-> s.polygons \o sp.front]))

\* Node.clipPolygons(polygons), its result appended to s.polygons: the
\* result of the front subtree, then that of the back subtree
ClipPolygons(s, node, polygons) ==
    IF ~IsSome(node.plane) THEN [m |-> s.m, polygons |-> s.polygons \o polygons]
    ELSE ClipFront(s, node,
                   ClipSplit([m |-> s.m, front |-> <<>>, back |-> <<>>], node.plane[1],
                             polygons, 1, Len(polygons)))

\* The polygons arrays of the nodes of a tree, in the order clipTo visits
\* them: the node, its front subtree, its back subtree
RECURSIVE NodePolygons(_)
NodePolygons(node) ==
    <<node.polygons>>
        \o (IF IsSome(node.front) THEN NodePolygons(node.front[1]) ELSE <<>>)
        \o (IF IsSome(node.back) THEN NodePolygons(node.back[1]) ELSE <<>>)

\* The tree with the polygons arrays lists[k], lists[k + 1], ... given to
\* its nodes in that order
RECURSIVE WithPolygons(_, _, _)
WithPolygons(node, lists, k) ==
    [plane |-> node.plane, polygons |-> lists[k],
     front |-> IF IsSome(node.front) THEN Some(WithPolygons(node.front[1], lists, k + 1))
               ELSE None,
     back |-> IF IsSome(node.back)
              THEN Some(WithPolygons(node.back[1], lists,
                            k + 1 + (IF IsSome(node.front)
                                     THEN Len(NodePolygons(node.front[1])) ELSE 0)))
              ELSE None]

\* this.polygons = c, the clipped array c
ClipNode(s, c) == [m |-> c.m, lists |-> Append(s.lists, c.polygons)]

\* this.polygons = bsp.clipPolygons(this.polygons) for the nodes lo .. hi
RECURSIVE ClipNodes(_, _, _, _, _)
ClipNodes(s, bsp, lists, lo, hi) ==
    IF lo = hi
    THEN ClipNode(s, ClipPolygons([m |-> s.m, polygons |-> <<>>], bsp, lists[lo]))
    ELSE LET l == ClipNodes(s, bsp, lists, lo, (lo + hi) \div 2)
         IN  Do(l, ClipNodes(l, bsp, lists, (lo + hi) \div 2 + 1, hi))

\* The tree with the clipped arrays r.lists
Clipped(node, r) == [m |-> r.m, node |-> WithPolygons(node, r.lists, 1)]

\* Node.clipTo(bsp)
ClipTo(m, node, bsp) ==
    Clipped(node, ClipNodes([m |-> m, lists |-> <<>>], bsp, NodePolygons(node), 1,
                            Len(NodePolygons(node))))

-----------------------------------------------------------------------------
(* CSG: its polygons array, a sequence of Polygon ids *)

\* The clone c pushed on the new array
ClonePush(s, c) == [m |-> c.m, polygons |-> Append(s.polygons, c.id)]

\* polygons[i].clone() for i = lo .. hi, appended to s.polygons:
\* map((p) => p.clone())
RECURSIVE CSGClone(_, _, _, _)
CSGClone(s, polygons, lo, hi) ==
    IF lo > hi THEN s
    ELSE IF lo = hi THEN ClonePush(s, PolygonClone(s.m, polygons[lo]))
    ELSE LET l == CSGClone(s, polygons, lo, (lo + hi) \div 2)
         IN  Do(l, CSGClone(l, polygons, (lo + hi) \div 2 + 1, hi))

\* A clone() that hands out the polygons of this themselves
CloneShared(m, this) == [m |-> m, polygons |-> this]

\* CSG.clone()
Clone(m, this) == CSGClone([m |-> m, polygons |-> <<>>], this, 1, Len(this))

\* new Node(c.polygons) for the clone c
NodeOfClone(c) == Do(c, NewNode(c.m, c.polygons))

\* The heap and the trees a and b
Trees(a, b) == Do(b, [m |-> b.m, a |-> a.node, b |-> b.node])

\* const b = new Node(csg.clone().polygons)
SecondNode(a, csg) == Do(a, Trees(a, NodeOfClone(Clone(a.m, csg))))

\* const a = new Node(this.clone().polygons); const b = new Node(csg.clone().polygons)
TwoNodes(m, this, csg) == SecondNode(NodeOfClone(Clone(m, this)), csg)

\* The tree a, and the tree b, replaced by what a call on it returned
SetA(s, r) == [m |-> r.m, a |-> r.node, b |-> s.b]
SetB(s, r) == [m |-> r.m, a |-> s.a, b |-> r.node]

\* One statement of an operator, on the heap and the two trees
Statement(s, stmt) ==
    CASE stmt = "a.invert()" -> SetA(s, Invert(s.m, s.a))
      [] stmt = "b.invert()" -> SetB(s, Invert(s.m, s.b))
      [] stmt = "a.clipTo(b)" -> SetA(s, ClipTo(s.m, s.a, s.b))
      [] stmt = "b.clipTo(a)" -> SetB(s, ClipTo(s.m, s.b, s.a))
      [] stmt = "a.build(b.allPolygons())" -> SetA(s, Build(s.m, s.a, AllPolygons(s.b)))

\* The statements stmts[lo], ..., stmts[hi] one after the other
RECURSIVE Statements(_, _, _, _)
Statements(s, stmts, lo, hi) ==
    IF lo = hi THEN Statement(s, stmts[lo])
    ELSE LET l == Statements(s, stmts, lo, (lo + hi) \div 2)
         IN  Do(l, Statements(l, stmts, (lo + hi) \div 2 + 1, hi))

\* The statements of an operator on the two trees
Run(s, stmts) == Do(s, Statements(s, stmts, 1, Len(stmts)))

\* CSG.fromPolygons(a.allPolygons())
FromA(s) == [m |-> s.m, polygons |-> AllPolygons(s.a)]

\* The statements of union after the two new Node
UnionStatements ==
    <<"a.clipTo(b)", "b.clipTo(a)", "b.invert()", "b.clipTo(a)", "b.invert()",
      "a.build(b.allPolygons())">>

\* The statements of subtract after the two new Node
SubtractStatements ==
    <<"a.invert()", "a.clipTo(b)", "b.clipTo(a)", "b.invert()", "b.clipTo(a)",
      "b.invert()", "a.build(b.allPolygons())", "a.invert()">>

\* The statements of intersect after the two new Node
IntersectStatements ==
    <<"a.invert()", "b.clipTo(a)", "b.invert()", "a.clipTo(b)", "b.clipTo(a)",
      "a.build(b.allPolygons())", "a.invert()">>

\* CSG.union(csg)
Union(m, this, csg) == FromA(Run(TwoNodes(m, this, csg), UnionStatements))

\* A subtract that forgets its last a.invert()
SubtractNoLastInvert(m, this, csg) ==
    FromA(Run(TwoNodes(m, this, csg),
                     <<"a.invert()", "a.clipTo(b)", "b.clipTo(a)", "b.invert()",
                       "b.clipTo(a)", "b.invert()", "a.build(b.allPolygons())">>))

\* CSG.subtract(csg)
Subtract(m, this, csg) == FromA(Run(TwoNodes(m, this, csg), SubtractStatements))

\* CSG.intersect(csg)
Intersect(m, this, csg) == FromA(Run(TwoNodes(m, this, csg), IntersectStatements))

\* csg.polygons.forEach((p) => p.flip()) for the clone csg
FlipAll(csg) ==
    Do(csg, [m |-> FlipPolygons(csg.m, csg.polygons, 1, Len(csg.polygons)),
             polygons |-> csg.polygons])

\* CSG.inverse()
Inverse(m, this) == FlipAll(Clone(m, this))

-----------------------------------------------------------------------------
(* CSG.fromGeometry.  A geometry is [position, normal, uv, color, index]:  *)
(* position and normal are number arrays, uv, color and index are absent   *)
(* or present number arrays.                                               *)

\* array[k] for a 0-based k that may be no number: undefined out of range
ArrayGet(array, k) ==
    IF IsNum(k) /\ k[2] = 1 /\ k[1] >= 0 /\ k[1] < Len(array) THEN Num(array[k[1] + 1])
    ELSE Undefined

\* posattr.itemSize
ItemSize == 3

\* the index array: geom.index.array, or 0 .. (position.length / itemSize | 0) - 1
GeometryIndex(geom) ==
    IF IsSome(geom.index) THEN ToSeq([i \in 1..Len(geom.index[1]) |-> Num(geom.index[1][i])])
    ELSE ToSeq([i \in 1..(Len(geom.position) \div ItemSize) |-> Num(i - 1)])

\* index[k] for a 0-based k
IndexGet(index, k) == IF k < Len(index) THEN index[k + 1] ELSE Undefined

\* array[k], array[k + 1], ..., array[k + n - 1]
ArrayRun(array, k, n) == ToSeq([d \in 1..n |-> ArrayGet(array, RAdd(k, Num(d - 1)))])

\* vertices[j] for the index entry vi, with vp = vi * 3 and vt = vi * 2
VertexAt(m, geom, vp, vt) ==
    NewVertex(m, ArrayRun(geom.position, vp, 3), ArrayRun(geom.normal, vp, 3),
              IF IsSome(geom.uv) THEN Some(ArrayRun(geom.uv[1], vt, 2) \o <<Num(0)>>) ELSE None,
              IF IsSome(geom.color) THEN Some(ArrayRun(geom.color[1], vt, 3)) ELSE None)

\* vertices[j] of the triangle starting at index position i
GeometryVertex(m, geom, index, i, j) ==
    VertexAt(m, geom, RMul(IndexGet(index, i + j), Num(3)), RMul(IndexGet(index, i + j), Num(2)))

\* vertices[j] = v
PushVertex(s, v) == [m |-> v.m, ids |-> Append(s.ids, v.id)]

\* the loop for (let j = 0; j < 3; j++)
RECURSIVE TriangleVertices(_, _, _, _, _)
TriangleVertices(s, geom, index, i, j) ==
    IF ~(j < 3) THEN s
    ELSE Do(s, TriangleVertices(PushVertex(s, GeometryVertex(s.m, geom, index, i, j)),
                                geom, index, i, j + 1))

\* polys[pli] = p
PushPolygon(s, p) == [m |-> p.m, polygons |-> Append(s.polygons, p.id)]

\* new Polygon(vertices, objectIndex)
TrianglePolygon(t, objectIndex) == Do(t, NewPolygon(t.m, t.ids, objectIndex))

\* the loop for (i = 0, pli = 0; i < l; i += 3, pli++)
RECURSIVE GeometryLoop(_, _, _, _, _)
GeometryLoop(s, geom, index, objectIndex, i) ==
    IF ~(i < Len(index)) THEN s
    ELSE Do(s, GeometryLoop(
                   PushPolygon(s, TrianglePolygon(
                                      TriangleVertices([m |-> s.m, ids |-> <<>>], geom, index,
                                                       i, 0),
                                      objectIndex)),
                   geom, index, objectIndex, i + 3))

\* CSG.fromGeometry(geom, objectIndex)
FromGeometry(m, geom, objectIndex) ==
    GeometryLoop([m |-> m, polygons |-> <<>>], geom, GeometryIndex(geom), objectIndex, 0)

-----------------------------------------------------------------------------
(* The solids the operators are applied to: closed triangulated solids     *)
(* given as indexed geometries, imported with fromGeometry.  Tetra is a    *)
(* tetrahedron; Overlapping overlaps it, Disjoint is away from it,         *)
(* Touching has a face in the plane of one of its faces, overlapping that  *)
(* face in part, and lies on the other side; Mirror shares that whole face *)
(* from the other side.  Dented is not convex: a tetrahedron with a pit    *)
(* in its base, the three faces of the pit first.                          *)

Geometries ==
    <<[position |-> <<0, 0, 0, 4, 0, 0, 0, 4, 0, 0, 0, 4>>,
       normal |-> <<0 - 1, 0 - 1, 0 - 2, 3, 0 - 1, 0 - 2, 0 - 1, 3, 0 - 2, 0 - 1, 0 - 1, 2>>,
       uv |-> None, color |-> None,
       index |-> Some(<<0, 2, 1, 0, 1, 3, 0, 3, 2, 1, 2, 3>>)],
      [position |-> <<1, 1, 1, 5, 1, 1, 1, 5, 1, 1, 1, 5>>,
       normal |-> <<0, 0, 0 - 1, 4, 0, 0 - 1, 0, 4, 0 - 1, 0, 0, 3>>,
       uv |-> None, color |-> None,
       index |-> Some(<<0, 2, 1, 0, 1, 3, 0, 3, 2, 1, 2, 3>>)],
      [position |-> <<6, 0, 0, 10, 0, 0, 6, 4, 0, 6, 0, 4>>,
       normal |-> <<5, 0 - 1, 0 - 2, 9, 0 - 1, 0 - 2, 5, 3, 0 - 2, 5, 0 - 1, 2>>,
       uv |-> None, color |-> None,
       index |-> Some(<<0, 2, 1, 0, 1, 3, 0, 3, 2, 1, 2, 3>>)],
      [position |-> <<2, 2, 0, 6, 2, 0, 2, 6, 0, 2, 2, 0 - 4>>,
       normal |-> <<1, 1, 0 - 2, 5, 1, 0 - 2, 1, 5, 0 - 2, 1, 1, 0 - 6>>,
       uv |-> None, color |-> None,
       index |-> Some(<<0, 1, 2, 0, 3, 1, 0, 2, 3, 1, 3, 2>>)],
      [position |-> <<0, 0, 0, 6, 0, 0, 0, 6, 0, 0, 0, 6, 1, 1, 1>>,
       normal |-> <<0 - 1, 0 - 1, 0 - 2, 5, 0 - 1, 0 - 2, 0 - 1, 5, 0 - 2, 0 - 1, 0 - 1, 4, 0, 0, 0 - 1>>,
       uv |-> None, color |-> None,
       index |-> Some(<<0, 4, 1, 1, 4, 2, 2, 4, 0, 0, 1, 3, 1, 2, 3, 2, 0, 3>>)],
      [position |-> <<0, 0, 0, 4, 0, 0, 0, 4, 0, 0, 0, 0 - 4>>,
       normal |-> <<0 - 1, 0 - 1, 0 - 2, 3, 0 - 1, 0 - 2, 0 - 1, 3, 0 - 2, 0 - 1, 0 - 1, 0 - 6>>,
       uv |-> None, color |-> None,
       index |-> Some(<<0, 1, 2, 0, 3, 1, 0, 2, 3, 1, 3, 2>>)]>>

\* How many of the Geometries are used
NumSolids == 5

\* The library of the first n solids: the heap, and the polygons array of
\* each CSG.  l is the library of the solids before the last, and g is
\* fromGeometry(Geometries[n], n) on its heap
RECURSIVE Library(_)
Library(n) ==
    IF n = 0 THEN [m |-> EmptyMem, solids |-> <<>>]
    ELSE LET l == Library(n - 1)
             g == FromGeometry(l.m, Geometries[n], Some(n))
         IN  Do(l, Do(g, [m |-> g.m, solids |-> Append(l.solids, g.polygons)]))

Lib == Library(NumSolids)

\* new CSG()
EmptyCSG == <<>>

Solids == {EmptyCSG} \cup {Lib.solids[k] : k \in 1..NumSolids}

-----------------------------------------------------------------------------
(* The boolean operators: this.union(csg), this.subtract(csg),             *)
(* this.intersect(csg) and this.inverse() on solids of the library         *)

Init ==
    /\ mem = Lib.m
    /\ self \in Solids
    /\ arg \in Solids
    /\ op = "init"
    /\ ret = <<>>

CSGUnion ==
    /\ op = "init"
    /\ \E r \in {Union(mem, self, arg)} : mem' = r.m /\ ret' = r.polygons
    /\ op' = "union"
    /\ UNCHANGED <<self, arg>>

CSGSubtract ==
    /\ op = "init"
    /\ \E r \in {Subtract(mem, self, arg)} : mem' = r.m /\ ret' = r.polygons
    /\ op' = "subtract"
    /\ UNCHANGED <<self, arg>>

CSGIntersect ==
    /\ op = "init"
    /\ \E r \in {Intersect(mem, self, arg)} : mem' = r.m /\ ret' = r.polygons
    /\ op' = "intersect"
    /\ UNCHANGED <<self, arg>>

CSGInverse ==
    /\ op = "init"
    /\ \E r \in {Inverse(mem, self)} : mem' = r.m /\ ret' = r.polygons
    /\ op' = "inverse"
    /\ UNCHANGED <<self, arg>>

Next == CSGUnion \/ CSGSubtract \/ CSGIntersect \/ CSGInverse

Spec == Init /\ [][Next]_vars

-----------------------------------------------------------------------------
(* CSG.fromGeometry(geom, objectIndex) on small geometries: four vertices, *)
(* the first three of them on one line, with or without uv and color      *)
(* arrays, with an index array or without one                              *)

\* The longest index array, and the largest index in one
MaxIndexLen == 4
MaxIndex == 3

PositionData == <<0, 0, 0, 4, 0, 0, 8, 0, 0, 0, 4, 0>>

\* The geometries: the position array holds four vertices, or three and
\* one number more
GeometryInputs ==
    LET NormalData == <<0, 0, 1, 0, 1, 0, 1, 0, 0, 1, 1, 1>>
        UvData == <<10, 11, 12, 13, 14, 15, 16, 17>>
        ColorData == <<20, 21, 22, 23, 24, 25, 26, 27, 28, 29, 30, 31>>
        \* The index arrays
        IndexArrays == UNION {{ToSeq(f) : f \in [1..n -> 0..MaxIndex]} : n \in 0..MaxIndexLen}
    IN  {[position |-> SubSeq(PositionData, 1, n), normal |-> SubSeq(NormalData, 1, n),
          uv |-> uv, color |-> color, index |-> index] :
            n \in {Len(PositionData) - 2, Len(PositionData)},
            uv \in {None, Some(UvData)},
            color \in {None, Some(ColorData)},
            index \in {None} \cup {Some(i) : i \in IndexArrays}}

\* objectIndex is absent, or a number
InitGeom ==
    /\ mem = EmptyMem
    /\ self \in GeometryInputs
    /\ arg \in {None, Some(1)}
    /\ op = "init"
    /\ ret = <<>>

CSGFromGeometry ==
    /\ op = "init"
    /\ \E r \in {FromGeometry(mem, self, arg)} : mem' = r.m /\ ret' = r.polygons
    /\ op' = "fromGeometry"
    /\ UNCHANGED <<self, arg>>

NextGeom == CSGFromGeometry

SpecGeom == InitGeom /\ [][NextGeom]_vars

-----------------------------------------------------------------------------
(* node.clipPolygons(polygons): the node is the tree of the clone of a     *)
(* solid of the library, as built or inverted, or a node without a plane;  *)
(* polygons holds the polygons of a solid and then those of another, or    *)
(* one polygon                                                             *)

\* new Node(csg.clone().polygons) for the solids of the library
BuiltTrees == {NodeOfClone(Clone(Lib.m, Lib.solids[k])) : k \in 1..NumSolids}

\* The node is new Node(), a tree just built, or node.invert() on one
InitClip ==
    /\ \E t \in {[m |-> Lib.m, node |-> EmptyNode]} \cup BuiltTrees
                  \cup {Invert(t.m, t.node) : t \in BuiltTrees} :
           mem = t.m /\ self = t.node
    /\ arg \in {a \o b : a, b \in Solids} \cup {<<p>> : p \in DOMAIN Lib.m.P}
    /\ op = "init"
    /\ ret = <<>>

NodeClipPolygons ==
    /\ op = "init"
    /\ \E r \in {ClipPolygons([m |-> mem, polygons |-> <<>>], self, arg)} :
           mem' = r.m /\ ret' = r.polygons
    /\ op' = "clipPolygons"
    /\ UNCHANGED <<self, arg>>

NextClip == NodeClipPolygons

SpecClip == InitClip /\ [][NextClip]_vars

-----------------------------------------------------------------------------
(* plane.splitPolygon(polygon, coplanarFront, coplanarBack, front, back),  *)
(* the four lists empty: first the plane of a polygon of the library and a *)
(* polygon of the library, then the plane of a polygon of the library and  *)
(* a polygon the last call pushed                                          *)

\* The most polygons the calls create
MaxFragments == 4

SplitPlanes == {Lib.m.P[p].plane : p \in DOMAIN Lib.m.P}

\* What the call pushed on its four lists
Lists(r) ==
    [coplanarFront |-> r.coplanarFront, coplanarBack |-> r.coplanarBack,
     front |-> r.front, back |-> r.back]

InitSplit ==
    /\ mem = Lib.m
    /\ self \in SplitPlanes
    /\ arg \in DOMAIN Lib.m.P
    /\ op = "init"
    /\ ret = Lists(NoSplit(Lib.m))

PlaneSplitPolygon ==
    /\ op = "init"
    /\ \E r \in {SplitPolygon(mem, self, arg)} : mem' = r.m /\ ret' = Lists(r)
    /\ op' = "splitPolygon"
    /\ UNCHANGED <<self, arg>>

PlaneSplitAgain ==
    /\ op = "splitPolygon"
    /\ Len(mem.P) + 2 <= Len(Lib.m.P) + MaxFragments
    /\ \E pl \in SplitPlanes :
       \E p \in Range(ret.coplanarFront \o ret.coplanarBack \o ret.front \o ret.back) :
       \E r \in {SplitPolygon(mem, pl, p)} :
           mem' = r.m /\ ret' = Lists(r) /\ self' = pl /\ arg' = p
    /\ UNCHANGED op

NextSplit == PlaneSplitPolygon \/ PlaneSplitAgain

SpecSplit == InitSplit /\ [][NextSplit]_vars

-----------------------------------------------------------------------------
(* Sequences of calls: the CSG the last call returned, or a solid of the   *)
(* library at first, is the receiver or the argument of the next call and  *)
(* a solid of the library is the other operand.  op is the list of the     *)
(* calls made, self and arg are the operands of the last one.              *)

\* The most calls in a sequence
MaxCalls == 2

InitSeq ==
    /\ mem = Lib.m
    /\ self = EmptyCSG
    /\ arg = EmptyCSG
    /\ op = <<>>
    /\ ret \in Solids

\* The receiver and the argument: the CSG so far and the solid, or the
\* solid and the CSG so far
Operands(csg, swapped) == IF swapped THEN <<csg, ret>> ELSE <<ret, csg>>

ThenUnion ==
    /\ Len(op) < MaxCalls
    /\ \E csg \in Solids, swapped \in BOOLEAN :
       \E o \in {Operands(csg, swapped)} :
       \E r \in {Union(mem, o[1], o[2])} :
           mem' = r.m /\ ret' = r.polygons /\ self' = o[1] /\ arg' = o[2]
    /\ op' = Append(op, "union")

ThenSubtract ==
    /\ Len(op) < MaxCalls
    /\ \E csg \in Solids, swapped \in BOOLEAN :
       \E o \in {Operands(csg, swapped)} :
       \E r \in {Subtract(mem, o[1], o[2])} :
           mem' = r.m /\ ret' = r.polygons /\ self' = o[1] /\ arg' = o[2]
    /\ op' = Append(op, "subtract")

ThenIntersect ==
    /\ Len(op) < MaxCalls
    /\ \E csg \in Solids, swapped \in BOOLEAN :
       \E o \in {Operands(csg, swapped)} :
       \E r \in {Intersect(mem, o[1], o[2])} :
           mem' = r.m /\ ret' = r.polygons /\ self' = o[1] /\ arg' = o[2]
    /\ op' = Append(op, "intersect")

ThenInverse ==
    /\ Len(op) < MaxCalls
    /\ \E r \in {Inverse(mem, ret)} :
           mem' = r.m /\ ret' = r.polygons /\ self' = ret /\ arg' = EmptyCSG
    /\ op' = Append(op, "inverse")

NextSeq == ThenUnion \/ ThenSubtract \/ ThenIntersect \/ ThenInverse

SpecSeq == InitSeq /\ [][NextSeq]_vars

-----------------------------------------------------------------------------
(* The statements of union, subtract and intersect one at a time: self is  *)
(* the tree a, arg the tree b, op the statements still to run and ret the  *)
(* statement that ran last.                                                *)

InitTree ==
    /\ \E this \in Solids, csg \in Solids :
       \E s \in {TwoNodes(Lib.m, this, csg)} :
           mem = s.m /\ self = s.a /\ arg = s.b
    /\ op \in {UnionStatements, SubtractStatements, IntersectStatements}
    /\ ret = "new Node(polygons)"

\* a.invert()
AInvert ==
    /\ op # <<>> /\ Head(op) = "a.invert()"
    /\ \E r \in {Invert(mem, self)} : mem' = r.m /\ self' = r.node
    /\ op' = Tail(op) /\ ret' = Head(op)
    /\ UNCHANGED arg

\* b.invert()
BInvert ==
    /\ op # <<>> /\ Head(op) = "b.invert()"
    /\ \E r \in {Invert(mem, arg)} : mem' = r.m /\ arg' = r.node
    /\ op' = Tail(op) /\ ret' = Head(op)
    /\ UNCHANGED self

\* a.clipTo(b)
AClipToB ==
    /\ op # <<>> /\ Head(op) = "a.clipTo(b)"
    /\ \E r \in {ClipTo(mem, self, arg)} : mem' = r.m /\ self' = r.node
    /\ op' = Tail(op) /\ ret' = Head(op)
    /\ UNCHANGED arg

\* b.clipTo(a)
BClipToA ==
    /\ op # <<>> /\ Head(op) = "b.clipTo(a)"
    /\ \E r \in {ClipTo(mem, arg, self)} : mem' = r.m /\ arg' = r.node
    /\ op' = Tail(op) /\ ret' = Head(op)
    /\ UNCHANGED self

\* a.build(b.allPolygons())
ABuild ==
    /\ op # <<>> /\ Head(op) = "a.build(b.allPolygons())"
    /\ \E r \in {Build(mem, self, AllPolygons(arg))} : mem' = r.m /\ self' = r.node
    /\ op' = Tail(op) /\ ret' = Head(op)
    /\ UNCHANGED arg

NextTree == AInvert \/ BInvert \/ AClipToB \/ BClipToA \/ ABuild

SpecTree == InitTree /\ [][NextTree]_vars

-----------------------------------------------------------------------------
(* JavaScript Numbers: IEEE 754 binary64 with round to nearest, ties to    *)
(* even.                                                                   *)

\* The arithmetic of Numbers and, below it, of the natural numbers of any
\* size that their significands and their exact sums, products, quotients
\* and roots are.  A Number is a record: k is "num", "inf" or "nan", s is 1
\* for a negative sign, and a "num" is m * 2^e with m an odd natural
\* number, or 0 with m = <<>> and e = 0.  e has no range here: overflow to
\* Infinity and subnormal numbers are left out.  A natural number is the
\* sequence of its digits in base 2^15 = 32768, lowest first, with no high
\* zero digit; 0 is <<>>.  fn names the function and a, b, i, c are its
\* arguments, 0 where it has none: on Numbers a + b, a - b, a * b, a / b,
\* a < b, "sqrt" for Math.sqrt(a), "neg" for -a and "literal" for the
\* Number of the integer a.
RECURSIVE Number(_, _, _, _, _)
Number(fn, a, b, i, c) ==
    CASE fn = "trim" ->
             \* a without its high zero digits
             IF \A k \in DOMAIN a : a[k] = 0 THEN <<>>
             ELSE SubSeq(a, 1, CHOOSE k \in DOMAIN a :
                                   a[k] # 0 /\ \A l \in (k + 1)..Len(a) : a[l] = 0)
      [] fn = "add" ->
             \* a + b: x are the sums of their digits, place by place, and
             \* a place receives a carry when a place below it overflows
             \* and all places between are full
             LET x == [k \in 1..((IF Len(a) > Len(b) THEN Len(a) ELSE Len(b)) + 1) |->
                          (IF k <= Len(a) THEN a[k] ELSE 0) + (IF k <= Len(b) THEN b[k] ELSE 0)]
             IN  Number("trim",
                        ToSeq([k \in DOMAIN x |->
                            (x[k] + (IF \E j \in 1..(k - 1) :
                                            x[j] >= 32768 /\ \A l \in (j + 1)..(k - 1) : x[l] = 32767
                                     THEN 1 ELSE 0)) % 32768]),
                        0, 0, 0)
      [] fn = "subtract" ->
             \* a - b, for a >= b: x are the differences of their digits,
             \* place by place, and a place lends when a place below it is
             \* negative and all places between are 0
             LET x == [k \in DOMAIN a |-> a[k] - (IF k <= Len(b) THEN b[k] ELSE 0)]
             IN  Number("trim",
                        ToSeq([k \in DOMAIN x |->
                            (x[k] + 32768 - (IF \E j \in 1..(k - 1) :
                                                    x[j] < 0 /\ \A l \in (j + 1)..(k - 1) : x[l] = 0
                                             THEN 1 ELSE 0)) % 32768]),
                        0, 0, 0)
      [] fn = "compare" ->
             \* -1, 0 or 1 as a <, = or > b
             (CASE Len(a) < Len(b) -> -1
               [] Len(a) > Len(b) -> 1
               [] Len(a) = Len(b) /\ a = b -> 0
               [] OTHER ->
                      IF \E k \in DOMAIN a : a[k] < b[k] /\ \A l \in (k + 1)..Len(a) : a[l] = b[l]
                      THEN -1 ELSE 1)
      [] fn = "times digit" ->
             \* a times the digit b: the low digits of the products plus
             \* their high digits one place up
             Number("add", ToSeq([k \in DOMAIN a |-> (a[k] * b) % 32768]),
                    <<0>> \o ToSeq([k \in DOMAIN a |-> (a[k] * b) \div 32768]), 0, 0)
      [] fn = "multiply" ->
             \* a times the digits above digit i of b is c; the digits
             \* from i down are still to multiply by
             (CASE i = 0 -> c
               [] i > 0 /\ Len(c) >= 0 ->
                      Number("multiply", a, b, i - 1,
                             Number("add", Number("times digit", a, b[i], 0, 0), <<0>> \o c, 0, 0)))
      [] fn = "shift left" ->
             \* a * 2^b
             IF a = <<>> THEN a
             ELSE ToSeq([j \in 1..(b \div 15) |-> 0]) \o Number("times digit", a, 2 ^ (b % 15), 0, 0)
      [] fn = "shift right" ->
             \* floor(a / 2^b): t is a without its b \div 15 low digits
             LET t == IF b \div 15 >= Len(a) THEN <<>> ELSE SubSeq(a, b \div 15 + 1, Len(a))
             IN  Number("trim",
                        ToSeq([k \in DOMAIN t |->
                            (t[k] \div 2 ^ (b % 15))
                                + (IF k < Len(t)
                                   THEN (t[k + 1] % 2 ^ (b % 15)) * 2 ^ (15 - (b % 15)) ELSE 0)]),
                        0, 0, 0)
      [] fn = "low bits" ->
             \* a mod 2^b
             Number("trim",
                    ToSeq([j \in 1..(IF b \div 15 < Len(a) THEN b \div 15 + 1 ELSE Len(a)) |->
                               IF j <= b \div 15 THEN a[j] ELSE a[j] % (2 ^ (b % 15))]),
                    0, 0, 0)
      [] fn = "bits" ->
             \* the number of bits of a
             IF a = <<>> THEN 0
             ELSE 15 * (Len(a) - 1)
                      + (CHOOSE n \in 1..15 : 2 ^ (n - 1) <= a[Len(a)] /\ a[Len(a)] < 2 ^ n)
      [] fn = "zeros" ->
             \* the number of low zero bits of a, which is not 0: k is its
             \* lowest digit that is not 0
             LET k == CHOOSE k \in DOMAIN a : a[k] # 0 /\ \A l \in 1..(k - 1) : a[l] = 0
             IN  15 * (k - 1) + (CHOOSE n \in 0..14 : a[k] % 2 ^ (n + 1) = 2 ^ n)
      [] fn = "divide" ->
             \* long division of a by b, whose highest digit is 16384 or
             \* more: c.q is the quotient and c.r the remainder of the
             \* digits above digit i of a, and the digits from i down are
             \* still to divide.  r is the remainder with digit i, e the
             \* estimate of the next digit of the quotient from the two
             \* highest digits of r and the highest of b, and the digit is
             \* the largest k with b * k <= r, which is e or up to two
             \* below it
             (CASE i = 0 -> c
               [] i > 0 /\ Len(c.q) >= 0 ->
                      LET r == Number("trim", <<a[i]>> \o c.r, 0, 0, 0)
                          e == (CASE Len(r) < Len(b) -> 0
                                 [] Len(r) > Len(b) /\ r[Len(r)] >= b[Len(b)] -> 32767
                                 [] Len(r) > Len(b) /\ r[Len(r)] < b[Len(b)] ->
                                        (r[Len(r)] * 32768 + r[Len(b)]) \div b[Len(b)]
                                 [] Len(r) = Len(b) -> r[Len(b)] \div b[Len(b)])
                          k == CHOOSE k \in (IF e < 2 THEN 0 ELSE e - 2)..e :
                                   /\ Number("compare", Number("times digit", b, k, 0, 0), r, 0, 0) <= 0
                                   /\ k < e =>
                                          Number("compare", Number("times digit", b, k + 1, 0, 0),
                                                 r, 0, 0) > 0
                      IN  Number("divide", a, b, i - 1,
                                 [q |-> <<k>> \o c.q,
                                  r |-> Number("subtract", r, Number("times digit", b, k, 0, 0), 0, 0)]))
      [] fn = "quotient" ->
             \* floor(a / b) as q, which may have high zero digits, and
             \* r = <<>> when b divides a.  Both are shifted by s bits to
             \* give b a highest digit of 16384 or more, and the highest
             \* digits of a, fewer than b has, are their own remainder
             LET s == (15 - (Number("bits", b, 0, 0, 0) % 15)) % 15
                 x == Number("shift left", a, s, 0, 0)
                 y == Number("shift left", b, s, 0, 0)
             IN  IF Len(x) < Len(y) THEN [q |-> <<>>, r |-> x]
                 ELSE Number("divide", x, y, Len(x) - Len(y) + 1,
                             [q |-> <<>>, r |-> SubSeq(x, Len(x) - Len(y) + 2, Len(x))])
      [] fn = "root" ->
             \* floor(sqrt(a)) by Heron's method from the approximation
             \* b >= sqrt(a): the next one is y = floor((b + floor(a / b)) / 2),
             \* and the root is reached when y is not below b
             LET q == Number("trim", Number("quotient", a, b, 0, 0).q, 0, 0, 0)
                 y == Number("shift right", Number("add", b, q, 0, 0), 1, 0, 0)
             IN  (CASE Len(q) >= 0 /\ Number("compare", y, b, 0, 0) < 0 -> Number("root", a, y, 0, 0)
                   [] OTHER -> b)
      [] fn = "make" ->
             \* the Number of sign a that is b * 2^i: the low zero bits of
             \* b are moved to the exponent
             IF b = <<>> THEN [k |-> "num", s |-> a, m |-> <<>>, e |-> 0]
             ELSE LET z == Number("zeros", b, 0, 0, 0)
                  IN  [k |-> "num", s |-> a, m |-> Number("shift right", b, z, 0, 0), e |-> i + z]
      [] fn = "round" ->
             \* the Number of sign a nearest to b * 2^i: b is rounded to 53
             \* bits, to nearest, ties to even.  The d low bits of b are
             \* cut off, which leaves q, and q is rounded up if they are
             \* more than half (h > 0), or half (h = 0) and q is odd
             LET d == Number("bits", b, 0, 0, 0) - 53
                 q == Number("shift right", b, d, 0, 0)
                 h == Number("compare", Number("low bits", b, d, 0, 0),
                             Number("shift left", <<1>>, d - 1, 0, 0), 0, 0)
             IN  (CASE d <= 0 -> Number("make", a, b, i, 0)
                   [] d > 0 /\ (h > 0 \/ (h = 0 /\ q[1] % 2 = 1)) ->
                          Number("make", a, Number("add", q, <<1>>, 0, 0), i + d, 0)
                   [] OTHER -> Number("make", a, q, i + d, 0))
      [] fn = "neg" -> IF a.k = "nan" THEN a ELSE [a EXCEPT !.s = 1 - @]
      [] fn = "+" ->
             \* e is the lower exponent, x and y are the significands for
             \* it, and a Number more than 60 bits below another does not
             \* count in their sum
             (CASE a.k # "num" \/ b.k # "num" ->
                      IF a.k = "nan" \/ b.k = "nan" \/ (a.k = "inf" /\ b.k = "inf" /\ a.s # b.s)
                      THEN [k |-> "nan", s |-> 0, m |-> <<>>, e |-> 0]
                      ELSE IF a.k = "inf" THEN a ELSE b
               [] a.k = "num" /\ b.k = "num" /\ (a.m = <<>> \/ b.m = <<>>) ->
                      IF a.m # <<>> THEN a
                      ELSE IF b.m # <<>> THEN b
                      ELSE [k |-> "num", s |-> IF a.s = 1 /\ b.s = 1 THEN 1 ELSE 0, m |-> <<>>, e |-> 0]
               [] OTHER ->
                      LET ta == Number("bits", a.m, 0, 0, 0) + a.e
                          tb == Number("bits", b.m, 0, 0, 0) + b.e
                          e == IF a.e < b.e THEN a.e ELSE b.e
                          x == Number("shift left", a.m, a.e - e, 0, 0)
                          y == Number("shift left", b.m, b.e - e, 0, 0)
                          h == Number("compare", x, y, 0, 0)
                      IN  (CASE ta - tb > 60 -> a
                            [] tb - ta > 60 -> b
                            [] ta - tb <= 60 /\ tb - ta <= 60 /\ a.s = b.s ->
                                   Number("round", a.s, Number("add", x, y, 0, 0), e, 0)
                            [] ta - tb <= 60 /\ tb - ta <= 60 /\ a.s # b.s /\ h = 0 ->
                                   [k |-> "num", s |-> 0, m |-> <<>>, e |-> 0]
                            [] ta - tb <= 60 /\ tb - ta <= 60 /\ a.s # b.s /\ h > 0 ->
                                   Number("round", a.s, Number("subtract", x, y, 0, 0), e, 0)
                            [] OTHER -> Number("round", b.s, Number("subtract", y, x, 0, 0), e, 0)))
      [] fn = "-" -> Number("+", a, Number("neg", b, 0, 0, 0), 0, 0)
      [] fn = "*" ->
             (CASE a.k # "num" \/ b.k # "num" ->
                      IF a.k = "nan" \/ b.k = "nan" \/ (a.k = "num" /\ a.m = <<>>)
                             \/ (b.k = "num" /\ b.m = <<>>)
                      THEN [k |-> "nan", s |-> 0, m |-> <<>>, e |-> 0]
                      ELSE [k |-> "inf", s |-> (a.s + b.s) % 2, m |-> <<>>, e |-> 0]
               [] a.k = "num" /\ b.k = "num" /\ (a.m = <<>> \/ b.m = <<>>) ->
                      [k |-> "num", s |-> (a.s + b.s) % 2, m |-> <<>>, e |-> 0]
               [] OTHER ->
                      Number("round", (a.s + b.s) % 2,
                             Number("multiply", a.m, b.m, Len(b.m), <<>>), a.e + b.e, 0))
      [] fn = "/" ->
             \* a.m * 2^n is divided by b.m, which gives a quotient p.q of
             \* 55 bits or more; it is doubled, plus one if the remainder
             \* is not 0, and rounded
             (CASE a.k # "num" \/ b.k # "num" ->
                      IF a.k = "nan" \/ b.k = "nan" \/ (a.k = "inf" /\ b.k = "inf")
                      THEN [k |-> "nan", s |-> 0, m |-> <<>>, e |-> 0]
                      ELSE IF a.k = "inf" THEN [k |-> "inf", s |-> (a.s + b.s) % 2, m |-> <<>>, e |-> 0]
                      ELSE [k |-> "num", s |-> (a.s + b.s) % 2, m |-> <<>>, e |-> 0]
               [] a.k = "num" /\ b.k = "num" /\ (a.m = <<>> \/ b.m = <<>>) ->
                      IF b.m # <<>> THEN [k |-> "num", s |-> (a.s + b.s) % 2, m |-> <<>>, e |-> 0]
                      ELSE IF a.m # <<>> THEN [k |-> "inf", s |-> (a.s + b.s) % 2, m |-> <<>>, e |-> 0]
                      ELSE [k |-> "nan", s |-> 0, m |-> <<>>, e |-> 0]
               [] OTHER ->
                      LET n == IF 55 + Number("bits", b.m, 0, 0, 0) > Number("bits", a.m, 0, 0, 0)
                               THEN 55 + Number("bits", b.m, 0, 0, 0) - Number("bits", a.m, 0, 0, 0)
                               ELSE 0
                          p == Number("quotient", Number("shift left", a.m, n, 0, 0), b.m, 0, 0)
                      IN  (CASE Len(p.q) >= 0 ->
                                   Number("round", (a.s + b.s) % 2,
                                          Number("add", Number("times digit", p.q, 2, 0, 0),
                                                 IF p.r = <<>> THEN <<>> ELSE <<1>>, 0, 0),
                                          a.e - b.e - n - 1, 0)))
      [] fn = "sqrt" ->
             \* a.m is shifted by n bits to x, which has 110 bits or 111,
             \* so eight digits, and leaves an even exponent; its root r
             \* has 55 bits or 56 and is found from g * 32768^3, where g^2
             \* is above the two highest digits of x; it is doubled, plus
             \* one if it is not exact, and rounded
             (CASE a.k # "num" \/ a.m = <<>> -> a
               [] a.k = "num" /\ a.m # <<>> /\ a.s = 1 -> [k |-> "nan", s |-> 0, m |-> <<>>, e |-> 0]
               [] OTHER ->
                      LET n == 110 - Number("bits", a.m, 0, 0, 0)
                                   + ((a.e - (110 - Number("bits", a.m, 0, 0, 0))) % 2)
                          x == Number("shift left", a.m, n, 0, 0)
                          g == CHOOSE g \in 1..2048 :
                                   /\ g * g > x[8] * 32768 + x[7]
                                   /\ (g - 1) * (g - 1) <= x[8] * 32768 + x[7]
                          r == Number("root", x, <<0, 0, 0, g>>, 0, 0)
                      IN  (CASE Len(r) >= 0 ->
                                   Number("round", 0,
                                          Number("add", Number("times digit", r, 2, 0, 0),
                                                 IF Number("multiply", r, r, Len(r), <<>>) = x
                                                 THEN <<>> ELSE <<1>>, 0, 0),
                                          (a.e - n) \div 2 - 1, 0)))
      [] fn = "<" ->
             (CASE a.k = "nan" \/ b.k = "nan" -> FALSE
               [] a.k = "inf" /\ b.k # "nan" -> a.s = 1 /\ ~(b.k = "inf" /\ b.s = 1)
               [] a.k = "num" /\ b.k = "inf" -> b.s = 0
               [] OTHER -> (a.m # <<>> \/ b.m # <<>>) /\ Number("-", a, b, 0, 0).s = 1)
      [] fn = "literal" ->
             \* the natural number n < 2^31 has three digits or fewer
             LET n == IF a < 0 THEN 0 - a ELSE a
             IN  Number("make", IF a < 0 THEN 1 ELSE 0,
                        Number("trim", <<n % 32768, (n \div 32768) % 32768, n \div (32768 * 32768)>>,
                               0, 0, 0),
                        0, 0)

-----------------------------------------------------------------------------
(* Vector, Vertex, Plane and Polygon on Numbers.  Node.build changes no    *)
(* Vertex and no Polygon, so here they are values; the vertices have no uv *)
(* and no color and the polygons no shared tag.                            *)

\* Plane.EPSILON = 1e-5: the Number nearest to it, 5902958103587057 * 2^-69
Epsilon == [k |-> "num", s |-> 0, m |-> <<26865, 4550, 25302, 167>>, e |-> -69]

\* The methods of Vector on Numbers: fn names the method, a is this, b the
\* other vector and t the scalar, 0 where the method has none.  "literal"
\* is new Vector(x, y, z) for the integer literals a; "each" is the
\* operation t of Numbers on each coordinate of a and b, and "sum" the sum
\* a.x + a.y + a.z.  The arguments of a call are computed before the method
\* is entered, as JavaScript computes them
RECURSIVE FVector(_, _, _, _)
FVector(fn, a, b, t) ==
    CASE <<a, b, t>> = <<>> -> a
      [] fn = "literal" -> ToSeq([k \in 1..3 |-> Number("literal", a[k], 0, 0, 0)])
      [] fn = "each" -> ToSeq([k \in 1..3 |-> Number(t, a[k], b[k], 0, 0)])
      [] fn = "sum" -> Number("+", Number("+", a[1], a[2], 0, 0), a[3], 0, 0)
      [] fn = "sub" -> FVector("each", a, b, "-")
      [] fn = "add" -> FVector("each", a, b, "+")
      [] fn = "times" -> FVector("each", a, <<t, t, t>>, "*")
      [] fn = "dividedBy" ->
             FVector("each", a, <<t, t, t>>, "/")
      [] fn = "dot" ->
             \* this.x * b.x + this.y * b.y + this.z * b.z
             FVector("sum", FVector("each", a, b, "*"), 0, 0)
      [] fn = "cross" ->
             \* (this.y * b.z - this.z * b.y, this.z * b.x - this.x * b.z,
             \* this.x * b.y - this.y * b.x)
             FVector("sub", FVector("each", <<a[2], a[3], a[1]>>, <<b[3], b[1], b[2]>>, "*"),
                     FVector("each", <<a[3], a[1], a[2]>>, <<b[2], b[3], b[1]>>, "*"), 0)
      [] fn = "length" ->
             \* Math.sqrt(this.x ** 2 + this.y ** 2 + this.z ** 2), with
             \* x ** 2 as x * x
             Number("sqrt", FVector("dot", a, a, 0), 0, 0, 0)
      [] fn = "unit" -> FVector("dividedBy", a, 0, FVector("length", a, 0, 0))
      [] fn = "lerp" ->
             \* this.add(Vector.tv0.copy(b).sub(this).times(t))
             FVector("add", a, FVector("times", FVector("sub", b, a, 0), 0, t), 0)

\* new Polygon(vertices, shared), with Plane.fromPoints of its first three
\* vertices: n is the unit normal and the plane new Plane(n.clone(),
\* n.dot(a))
FPolygon(vertices) ==
    LET Through(n, a) == Do(n, [normal |-> n, w |-> FVector("dot", n, a, 0)])
        FromPoints(a, b, c) ==
            Through(FVector("unit", FVector("cross", FVector("sub", b, a, 0),
                                            FVector("sub", c, a, 0), 0), 0, 0), a)
    IN  [vertices |-> vertices,
         plane |-> FromPoints(vertices[1].pos, vertices[2].pos, vertices[3].pos)]

\* Plane.splitPolygon: what the call pushed to its four lists
FSplitPolygon(pl, polygon) ==
    LET \* t < -Plane.EPSILON ? BACK : t > Plane.EPSILON ? FRONT : COPLANAR
        TypeOfT(t) ==
            IF Number("<", t, Number("neg", Epsilon, 0, 0, 0), 0, 0) THEN BACK
            ELSE IF Number("<", Epsilon, t, 0, 0) THEN FRONT
            ELSE COPLANAR
        \* The type of t = this.normal.dot(polygon.vertices[i].pos) - this.w
        types == ToSeq([i \in 1..Len(polygon.vertices) |->
                     TypeOfT(Number("-", FVector("dot", pl.normal, polygon.vertices[i].pos, 0), pl.w,
                                    0, 0))])
        \* if (ti != BACK) f.push(vi); if (ti != FRONT) b.push(ti != BACK ? vi.clone() : vi)
        Keep(s, ti, vi) ==
            [f |-> IF ti # BACK THEN Append(s.f, vi) ELSE s.f,
             b |-> IF ti # FRONT THEN Append(s.b, vi) ELSE s.b]
        \* t = (this.w - this.normal.dot(vi.pos)) / this.normal.dot(vj.pos - vi.pos)
        T(vi, vj) ==
            Number("/", Number("-", pl.w, FVector("dot", pl.normal, vi.pos, 0), 0, 0),
                   FVector("dot", pl.normal, FVector("sub", vj.pos, vi.pos, 0), 0), 0, 0)
        \* Vertex.interpolate
        Interpolate(vi, vj, t) ==
            Do(t, [pos |-> FVector("lerp", vi.pos, vj.pos, t),
                   normal |-> FVector("lerp", vi.normal, vj.normal, t)])
        \* f.push(v); b.push(v.clone())
        Both(s, v) == [f |-> Append(s.f, v), b |-> Append(s.b, v)]
        \* One iteration of the SPANNING loop, for vertex i and the next
        \* vertex j
        Step(s, vi, vj, ti, tj) ==
            IF BitOr(ti, tj) = SPANNING
            THEN Both(Keep(s, ti, vi), Interpolate(vi, vj, T(vi, vj)))
            ELSE Keep(s, ti, vi)
        \* The SPANNING loop from vertex i on
        RECURSIVE Walk(_, _)
        Walk(s, i) ==
            IF Len(s.f) >= 0 /\ i > Len(polygon.vertices) THEN s
            ELSE Walk(Step(s, polygon.vertices[i],
                           polygon.vertices[(i % Len(polygon.vertices)) + 1],
                           types[i], types[(i % Len(polygon.vertices)) + 1]), i + 1)
        Pushed(cf, cb, f, b) == [coplanarFront |-> cf, coplanarBack |-> cb, front |-> f, back |-> b]
        \* if (f.length >= 3) front.push(new Polygon(f, polygon.shared)),
        \* and so for b
        Emit(s) ==
            Pushed(<<>>, <<>>, IF Len(s.f) >= 3 THEN <<FPolygon(s.f)>> ELSE <<>>,
                   IF Len(s.b) >= 3 THEN <<FPolygon(s.b)>> ELSE <<>>)
        polygonType == PolygonType(types, 1)
    IN  CASE polygonType = COPLANAR ->
                 IF Number("<", Number("literal", 0, 0, 0, 0),
                           FVector("dot", pl.normal, polygon.plane.normal, 0), 0, 0)
                 THEN Pushed(<<polygon>>, <<>>, <<>>, <<>>)
                 ELSE Pushed(<<>>, <<polygon>>, <<>>, <<>>)
          [] polygonType = FRONT -> Pushed(<<>>, <<>>, <<polygon>>, <<>>)
          [] polygonType = BACK -> Pushed(<<>>, <<>>, <<>>, <<polygon>>)
          [] polygonType = SPANNING -> Emit(Walk([f |-> <<>>, b |-> <<>>], 1))

-----------------------------------------------------------------------------
(* Node.build step by step, on Numbers.  self is the tree: the nodes by    *)
(* their path from the root, each with its plane and its polygons; a child *)
(* is there when its path is.  arg is the call stack, the running call     *)
(* last: the node, the polygons received, the loop index, the two local    *)
(* lists and the statement the call is at.  mem is the list the outermost  *)
(* call received, ret counts the calls made on the root, op tells whether  *)
(* a call is running, has returned, or has exhausted the call stack.       *)

\* The most polygons in a list, the frames the call stack has room for,
\* the most calls of build on the root
MaxPolygons == 2
MaxDepth == 4
MaxBuilds == 2

\* The lists of polygons build is called with.  The polygons are triangles
\* whose vertices all have the normal (0, 0, 1): one in the plane z = 0,
\* one above it, one across it, and a long thin one through the origin
BuildLists ==
    LET corners ==
            <<<<<<0, 0, 0>>, <<4, 0, 0>>, <<0, 4, 0>>>>,
              <<<<0, 0, 2>>, <<4, 0, 2>>, <<0, 4, 2>>>>,
              <<<<1, 1, -2>>, <<1, 1, 2>>, <<3, 1, 1>>>>,
              <<<<0, 0, 0>>, <<90000003, 60000002, 30000001>>,
                <<180000006, 120000005, 60000002>>>>>>
        polygons ==
            ToSeq([k \in DOMAIN corners |->
                FPolygon(ToSeq([j \in 1..3 |->
                    [pos |-> FVector("literal", corners[k][j], 0, 0),
                     normal |-> FVector("literal", <<0, 0, 1>>, 0, 0)]]))])
    IN  UNION {{ToSeq([i \in 1..n |-> polygons[l[i]]]) : l \in [1..n -> DOMAIN polygons]} :
               n \in 0..MaxPolygons}

\* The frame of a call node.build(polygons)
Frame(node, polygons) ==
    [node |-> node, polygons |-> polygons, i |-> 1, front |-> <<>>, back |-> <<>>,
     pc |-> "enter"]

\* The running call
Running == arg[Len(arg)]

\* The root is new Node()
InitBuild ==
    /\ self = [path \in {<<>>} |-> [plane |-> None, polygons |-> <<>>]]
    /\ mem \in BuildLists
    /\ arg = <<Frame(<<>>, mem)>>
    /\ op = "running"
    /\ ret = 1

\* if (!polygons.length) return;
\* if (!this.plane) this.plane = polygons[0].plane.clone();
BuildEnter ==
    /\ op = "running" /\ Running.pc = "enter"
    /\ IF Len(Running.polygons) = 0
       THEN arg' = [arg EXCEPT ![Len(arg)].pc = "return"] /\ UNCHANGED self
       ELSE /\ arg' = [arg EXCEPT ![Len(arg)].pc = "loop"]
            /\ self' = [self EXCEPT ![Running.node].plane =
                           IF IsSome(@) THEN @ ELSE Some(Running.polygons[1].plane)]
    /\ UNCHANGED <<mem, op, ret>>

\* One iteration of the loop:
\* this.plane.splitPolygon(polygons[i], this.polygons, this.polygons, front, back)
BuildLoop ==
    /\ op = "running" /\ Running.pc = "loop"
    /\ \E r \in {FSplitPolygon(self[Running.node].plane[1], Running.polygons[Running.i])} :
           /\ self' = [self EXCEPT ![Running.node].polygons =
                          @ \o r.coplanarFront \o r.coplanarBack]
           /\ arg' = [arg EXCEPT ![Len(arg)].front = @ \o r.front,
                                 ![Len(arg)].back = @ \o r.back,
                                 ![Len(arg)].i = @ + 1,
                                 ![Len(arg)].pc = IF Running.i = Len(Running.polygons)
                                                  THEN "front" ELSE "loop"]
    /\ UNCHANGED <<mem, op, ret>>

\* if (front.length) { if (!this.front) this.front = new Node(); this.front.build(front); }
BuildCallFront ==
    /\ op = "running" /\ Running.pc = "front"
    /\ IF Len(Running.front) = 0
       THEN arg' = [arg EXCEPT ![Len(arg)].pc = "back"] /\ UNCHANGED self
       ELSE /\ Len(arg) < MaxDepth
            /\ self' = [p \in DOMAIN self \cup {Append(Running.node, "front")} |->
                           IF p \in DOMAIN self THEN self[p]
                           ELSE [plane |-> None, polygons |-> <<>>]]
            /\ arg' = Append([arg EXCEPT ![Len(arg)].pc = "back"],
                             Frame(Append(Running.node, "front"), Running.front))
    /\ UNCHANGED <<mem, op, ret>>

\* if (back.length) { if (!this.back) this.back = new Node(); this.back.build(back); }
BuildCallBack ==
    /\ op = "running" /\ Running.pc = "back"
    /\ IF Len(Running.back) = 0
       THEN arg' = [arg EXCEPT ![Len(arg)].pc = "return"] /\ UNCHANGED self
       ELSE /\ Len(arg) < MaxDepth
            /\ self' = [p \in DOMAIN self \cup {Append(Running.node, "back")} |->
                           IF p \in DOMAIN self THEN self[p]
                           ELSE [plane |-> None, polygons |-> <<>>]]
            /\ arg' = Append([arg EXCEPT ![Len(arg)].pc = "return"],
                             Frame(Append(Running.node, "back"), Running.back))
    /\ UNCHANGED <<mem, op, ret>>

\* The call returns to its caller
BuildReturn ==
    /\ op = "running" /\ Running.pc = "return"
    /\ arg' = SubSeq(arg, 1, Len(arg) - 1)
    /\ op' = IF Len(arg) = 1 THEN "returned" ELSE "running"
    /\ UNCHANGED <<mem, self, ret>>

\* A recursive call with no room left on the call stack: RangeError
BuildOverflow ==
    /\ op = "running" /\ Len(arg) = MaxDepth
    /\ \/ Running.pc = "front" /\ Len(Running.front) > 0
       \/ Running.pc = "back" /\ Len(Running.back) > 0
    /\ arg' = <<>>
    /\ op' = "RangeError"
    /\ UNCHANGED <<mem, self, ret>>

\* build is called again on the root, to add polygons to the tree
BuildMore ==
    /\ op = "returned" /\ ret < MaxBuilds
    /\ mem' \in BuildLists
    /\ arg' = <<Frame(<<>>, mem')>>
    /\ op' = "running"
    /\ ret' = ret + 1
    /\ UNCHANGED self

NextBuild ==
    \/ BuildEnter \/ BuildLoop \/ BuildCallFront \/ BuildCallBack \/ BuildReturn
    \/ BuildOverflow \/ BuildMore

SpecBuild == InitBuild /\ [][NextBuild]_vars

-----------------------------------------------------------------------------
(* What the claims speak of *)

\* The Vertex objects of the polygons of a polygons array
VertexIds(m, polygons) ==
    UNION {Range(m.P[polygons[i]].vertices) : i \in DOMAIN polygons}

\* A polygon as a value: its vertices in order, its plane, its shared tag
PolygonValue(m, pid) ==
    [vertices |-> ToSeq([i \in 1..Len(m.P[pid].vertices) |-> m.V[m.P[pid].vertices[i]]]),
     plane |-> m.P[pid].plane, shared |-> m.P[pid].shared]

\* The values of the polygons of a polygons array, in order
PolygonValues(m, polygons) ==
    ToSeq([i \in 1..Len(polygons) |-> PolygonValue(m, polygons[i])])

\* The same polygon up to the vertex its boundary loop starts at
SameLoop(p, q) ==
    /\ p.plane = q.plane
    /\ p.shared = q.shared
    /\ Len(p.vertices) = Len(q.vertices)
    /\ \E k \in 0..(Len(p.vertices) - 1) :
           \A i \in 1..Len(p.vertices) :
               p.vertices[i] = q.vertices[((i - 1 + k) % Len(p.vertices)) + 1]

\* The same polygons up to enumeration order
SameSet(s, t) ==
    /\ Len(s) = Len(t)
    /\ \A i \in DOMAIN s :
           Cardinality({j \in DOMAIN s : s[j] = s[i]})
               = Cardinality({j \in DOMAIN t : t[j] = s[i]})

\* A closed solid: every edge of a polygon is run the other way by exactly
\* one polygon.  Edges are the directed edges of a polygon, as pairs of
\* positions
Closed(m, polygons) ==
    LET Edges(pid) ==
            {<<m.V[m.P[pid].vertices[i]].pos,
               m.V[m.P[pid].vertices[(i % Len(m.P[pid].vertices)) + 1]].pos>> :
                i \in 1..Len(m.P[pid].vertices)}
    IN  /\ Len(polygons) > 0
        /\ \A p \in Range(polygons) : \A e \in Edges(p) :
               Cardinality({q \in Range(polygons) : <<e[2], e[1]>> \in Edges(q)}) = 1

\* All vertices of the polygons are on the plane or on the given side of it
OnSide(m, pl, polygons, side) ==
    \A v \in VertexIds(m, polygons) : VertexType(pl, m.V[v].pos) \in {COPLANAR, side}

\* Two solids that do not overlap: the plane of a face of one of them has
\* one solid behind it and the other in front of it
NonOverlapping(m, a, b) ==
    \E p \in Range(a) \cup Range(b) :
        \/ OnSide(m, m.P[p].plane, a, BACK) /\ OnSide(m, m.P[p].plane, b, FRONT)
        \/ OnSide(m, m.P[p].plane, a, FRONT) /\ OnSide(m, m.P[p].plane, b, BACK)

\* No polygon of the solid has vertices on both sides of the plane of
\* another: every convex solid is such
NoneSpanning(m, polygons) ==
    \A p, q \in Range(polygons) :
        PolygonType(VertexTypes(m, m.P[q].plane, m.P[p].vertices), 1) # SPANNING

-----------------------------------------------------------------------------
(* The claims about the boolean operators, checked under Spec.  In every   *)
(* state of Spec the operands are self and arg as they are in the heap     *)
(* Lib.m the call started from, mem is the heap after the call and ret is  *)
(* the polygons array of the CSG it returned.                              *)

\* C1: union, subtract, intersect and inverse leave the polygons of both
\* operands as they were (the same Polygon objects with the same Vertex
\* objects in the same order, every vertex, plane and shared tag unchanged),
\* and the returned CSG holds no Polygon and no Vertex object of an operand.
C1_OperandsUntouched ==
    op # "init" =>
        /\ \A p \in Range(self) \cup Range(arg) :
               mem.P[p] = Lib.m.P[p] /\ PolygonValue(mem, p) = PolygonValue(Lib.m, p)
        /\ Range(ret) \cap (Range(self) \cup Range(arg)) = {}
        /\ VertexIds(mem, ret) \cap (VertexIds(Lib.m, self) \cup VertexIds(Lib.m, arg)) = {}

C1_Witness ==
    /\ op = "subtract"
    /\ Len(self) > 0 /\ Len(arg) > 0 /\ self # arg
    /\ Len(ret) > Len(self)

\* C2: A.intersect(empty) returns a CSG with no polygons.
C2_IntersectEmpty ==
    (op = "intersect" /\ arg = EmptyCSG) => Len(ret) = 0

\* C3 as stated: for any solid A, convex or not, A.union(empty) and
\* A.subtract(empty) return the polygons of A up to enumeration order, none
\* split, dropped or added.
C3_AnySolid ==
    (op \in {"union", "subtract"} /\ arg = EmptyCSG) =>
        SameSet(PolygonValues(mem, ret), PolygonValues(Lib.m, self))

\* C3 amended: for a solid A none of whose polygons spans the plane of
\* another of its polygons, A.union(empty) and A.subtract(empty) return the
\* polygons of A up to enumeration order, none split, dropped or added.
C3_NoneSpanning ==
    (op \in {"union", "subtract"} /\ arg = EmptyCSG /\ NoneSpanning(Lib.m, self)) =>
        SameSet(PolygonValues(mem, ret), PolygonValues(Lib.m, self))

C3_Witness ==
    /\ op = "subtract" /\ arg = EmptyCSG
    /\ Len(self) > 0 /\ NoneSpanning(Lib.m, self)
    /\ Len(ret) = Len(self)

\* C4: for two closed solids A and B that do not overlap (apart, or touching
\* along faces), A.intersect(B) returns a CSG with no polygons.
C4_NonOverlapping ==
    (/\ op = "intersect"
     /\ Closed(Lib.m, self) /\ Closed(Lib.m, arg)
     /\ NonOverlapping(Lib.m, self, arg)) => Len(ret) = 0

\* A and B touch: a face of B lies in the plane of a face of A
C4_Witness ==
    /\ op = "intersect"
    /\ Closed(Lib.m, self) /\ Closed(Lib.m, arg)
    /\ NonOverlapping(Lib.m, self, arg)
    /\ \E p \in Range(self), q \in Range(arg) :
           PolygonType(VertexTypes(Lib.m, Lib.m.P[p].plane, Lib.m.P[q].vertices), 1) = COPLANAR
    /\ Len(ret) = 0

C6_SubtractIsIntersectInverse ==
    (op = "subtract" /\ Closed(Lib.m, self) /\ Closed(Lib.m, arg)) =>
        LET i == Inverse(Lib.m, arg)
            r == Intersect(i.m, self, i.polygons)
            s == PolygonValues(mem, ret)
            t == PolygonValues(r.m, r.polygons)
        IN  /\ Len(s) = Len(t)
            /\ \A k \in DOMAIN s :
                   Cardinality({j \in DOMAIN s : SameLoop(s[j], s[k])})
                       = Cardinality({j \in DOMAIN t : SameLoop(t[j], s[k])})

C6_Witness ==
    /\ op = "subtract"
    /\ Closed(Lib.m, self) /\ Closed(Lib.m, arg)
    /\ Len(ret) > Len(self)
    /\ ~NoneSpanning(Lib.m, self)

-----------------------------------------------------------------------------
(* The claims about fromGeometry, checked under SpecGeom.  In every state  *)
(* of SpecGeom self is the geometry, arg is the tag, mem is the heap and   *)
(* ret is the polygons array of the CSG the call returned.                 *)

\* C7: no Polygon with a degenerate plane (the first three vertex positions
\* on one line: a zero or not-a-number normal) is ever created; such a
\* construction is detected and rejected.
C7_NoDegeneratePlane ==
    \A p \in DOMAIN mem.P : IsNumVec(mem.P[p].plane.normal)

\* array[k], ..., array[k + n - 1] for a 0-based k
Slice(array, k, n) ==
    ToSeq([d \in 1..n |-> IF k + d <= Len(array) THEN Num(array[k + d]) ELSE Undefined])

\* C8: fromGeometry on an index list of length L returns floor(L / 3)
\* triangles; vertex j of triangle k has index v = index[3k + j] and takes
\* its position from position[3v..3v+2], its normal from normal[3v..3v+2],
\* its uv from uv[2v..2v+1] and its color from color[3v..3v+2] when those
\* arrays are given, and every triangle carries the tag as its shared value.
C8_FromGeometry ==
    op = "fromGeometry" =>
        LET \* the index list: the explicit one, or 0 .. N - 1 for the N
            \* vertices of the position array
            index == IF IsSome(self.index) THEN self.index[1]
                     ELSE ToSeq([i \in 1..(Len(self.position) \div 3) |-> i - 1])
        IN  /\ Len(ret) = Len(index) \div 3
            /\ \A k \in 0..(Len(index) \div 3 - 1) : \A j \in 0..2 :
                   LET v == index[3 * k + j + 1]
                       vertex == mem.V[mem.P[ret[k + 1]].vertices[j + 1]]
                   IN  /\ vertex.pos = Slice(self.position, 3 * v, 3)
                       /\ vertex.normal = Slice(self.normal, 3 * v, 3)
                       /\ IsSome(self.uv) =>
                              /\ IsSome(vertex.uv)
                              /\ SubSeq(vertex.uv[1], 1, 2) = Slice(self.uv[1], 2 * v, 2)
                       /\ IsSome(self.color) =>
                              /\ IsSome(vertex.color)
                              /\ vertex.color[1] = Slice(self.color[1], 3 * v, 3)
            /\ \A i \in DOMAIN ret : mem.P[ret[i]].shared = arg

-----------------------------------------------------------------------------
(* The claim about clipPolygons, checked under SpecClip.  In every state   *)
(* of SpecClip self is the node, arg is the polygons array and ret is the  *)
(* array the call returned.  The call changes no object that was there     *)
(* before it, so the heap after it tells what its arguments were.          *)

\* A polygon all of whose vertices are in the plane
InPlane(m, pl, pid) == PolygonType(VertexTypes(m, pl, m.P[pid].vertices), 1) = COPLANAR

\* The polygon has a vertex in front of the plane and one behind it
Spans(m, pl, pid) ==
    /\ FRONT \in Range(VertexTypes(m, pl, m.P[pid].vertices))
    /\ BACK \in Range(VertexTypes(m, pl, m.P[pid].vertices))

\* The polygon faces the way the plane does
FacesAs(m, pl, pid) == RPos(VDot(pl.normal, m.P[pid].plane.normal))

\* C9: clipPolygons(P) on a node without a plane returns P unchanged; on a
\* node with a plane every polygon of P is split by the plane, a coplanar
\* polygon joining the front list if it faces the way the plane does and
\* the back list if not; the front list is clipped by the front child if
\* there is one and kept if not, the back list is clipped by the back child
\* if there is one and discarded if not; the result is the front result
\* followed by the back result.  Two arrays are the same when they hold the
\* same objects where they are polygons of the array given to the call, and
\* fragments of the same value elsewhere.
C9_ClipPolygons ==
    op = "clipPolygons" =>
        IF ~IsSome(self.plane) THEN ret = arg
        ELSE LET sp == ClipSplit([m |-> mem, front |-> <<>>, back |-> <<>>], self.plane[1],
                                 arg, 1, Len(arg))
                 f == IF IsSome(self.front)
                      THEN ClipPolygons([m |-> sp.m, polygons |-> <<>>], self.front[1],
                                        sp.front)
                      ELSE [m |-> sp.m, polygons |-> sp.front]
                 b == IF IsSome(self.back)
                      THEN ClipPolygons([m |-> f.m, polygons |-> <<>>], self.back[1], sp.back)
                      ELSE [m |-> f.m, polygons |-> <<>>]
             IN  /\ \A p \in Range(arg) :
                        InPlane(mem, self.plane[1], p) =>
                            IF FacesAs(mem, self.plane[1], p)
                            THEN p \in Range(sp.front) /\ p \notin Range(sp.back)
                            ELSE p \in Range(sp.back) /\ p \notin Range(sp.front)
                 /\ LET t == f.polygons \o b.polygons
                    IN  /\ Len(ret) = Len(t)
                        /\ \A i \in DOMAIN ret :
                               IF ret[i] \in Range(arg) \/ t[i] \in Range(arg) THEN ret[i] = t[i]
                               ELSE PolygonValue(mem, ret[i]) = PolygonValue(b.m, t[i])

\* A tree with a front child and no back child at its root; among the
\* polygons one in the plane of the root that faces the other way, which
\* is discarded, and one the plane cuts; a fragment is returned
C9_Witness ==
    /\ op = "clipPolygons"
    /\ IsSome(self.plane) /\ IsSome(self.front) /\ ~IsSome(self.back)
    /\ \E p \in Range(arg) :
           InPlane(mem, self.plane[1], p) /\ ~FacesAs(mem, self.plane[1], p) /\ p \notin Range(ret)
    /\ \E p \in Range(arg) : Spans(mem, self.plane[1], p)
    /\ \E q \in Range(ret) : q \notin Range(arg)

-----------------------------------------------------------------------------
(* The claim about splitPolygon, checked under SpecSplit.  In every state  *)
(* of SpecSplit after a call self is the plane, arg is the polygon and ret *)
(* holds what the call pushed on its four lists.                           *)

\* The vertices of the fragment of one side from vertex i on, in boundary
\* order: <<"vertex", i>> is vertex i of the polygon, <<"cut", i>> is the
\* interpolated vertex of the edge from vertex i to the next one
RECURSIVE Fragment(_, _, _)
Fragment(types, side, i) ==
    IF i > Len(types) THEN <<>>
    ELSE (IF types[i] \in {side, COPLANAR} THEN << <<"vertex", i>> >> ELSE <<>>)
         \o (IF {types[i], types[(i % Len(types)) + 1]} = {FRONT, BACK}
             THEN << <<"cut", i>> >> ELSE <<>>)
         \o Fragment(types, side, i + 1)

\* The vertices ids of heap m are those of the fragment e of the polygon
\* with the vertices vs; a cut is in the plane and on the line through the
\* ends a and b of its edge
IsFragment(m, pl, ids, e, vs) ==
    LET IsCut(pos, a, b) ==
            /\ RSub(VDot(pl.normal, pos), pl.w) = Num(0)
            /\ VCross(VSub(pos, a), VSub(b, a)) = <<Num(0), Num(0), Num(0)>>
    IN  /\ Len(ids) = Len(e)
        /\ \A k \in DOMAIN e :
               IF e[k][1] = "vertex" THEN m.V[ids[k]] = m.V[vs[e[k][2]]]
               ELSE IsCut(m.V[ids[k]].pos, m.V[vs[e[k][2]]].pos,
                          m.V[vs[(e[k][2] % Len(vs)) + 1]].pos)

\* C10: splitPolygon on a polygon with a FRONT and a BACK vertex pushes
\* nothing on the coplanar lists; the front fragment holds the FRONT and
\* COPLANAR vertices and one interpolated vertex for each edge joining a
\* FRONT and a BACK vertex, in boundary order, the back fragment holds the
\* BACK and COPLANAR vertices and a copy of each interpolated vertex; a
\* fragment is pushed, with the shared tag of the polygon, exactly if it
\* has at least 3 vertices.  A copy is another object of the same value.
C10_Spanning ==
    (op = "splitPolygon" /\ Spans(mem, self, arg)) =>
        LET vs == mem.P[arg].vertices
            types == VertexTypes(mem, self, vs)
            ef == Fragment(types, FRONT, 1)
            eb == Fragment(types, BACK, 1)
        IN  /\ ret.coplanarFront = <<>> /\ ret.coplanarBack = <<>>
            /\ Len(ret.front) = (IF Len(ef) >= 3 THEN 1 ELSE 0)
            /\ Len(ret.back) = (IF Len(eb) >= 3 THEN 1 ELSE 0)
            /\ \A p \in Range(ret.front) :
                   /\ mem.P[p].shared = mem.P[arg].shared
                   /\ IsFragment(mem, self, mem.P[p].vertices, ef, vs)
            /\ \A p \in Range(ret.back) :
                   /\ mem.P[p].shared = mem.P[arg].shared
                   /\ IsFragment(mem, self, mem.P[p].vertices, eb, vs)
            /\ \A p \in Range(ret.front) : \A q \in Range(ret.back) :
                   \A k \in DOMAIN eb : \A l \in DOMAIN ef :
                       (eb[k][1] = "cut" /\ ef[l] = eb[k]) =>
                           /\ mem.V[mem.P[q].vertices[k]] = mem.V[mem.P[p].vertices[l]]
                           /\ mem.P[q].vertices[k] # mem.P[p].vertices[l]

\* A polygon of four or more vertices, one of them in the plane, cut into
\* two fragments
C10_Witness ==
    /\ op = "splitPolygon" /\ Spans(mem, self, arg)
    /\ Len(mem.P[arg].vertices) >= 4
    /\ COPLANAR \in Range(VertexTypes(mem, self, mem.P[arg].vertices))
    /\ Len(ret.front) = 1 /\ Len(ret.back) = 1

-----------------------------------------------------------------------------
(* C11 *)

\* C11: in the result of any sequence of union, subtract, intersect and
\* inverse calls every Polygon object occurs exactly once and every Vertex
\* object is referenced exactly once, by exactly one Polygon
C11_NothingShared ==
    LET \* No element occurs twice in the sequence
        Injective(seq) == \A i, j \in DOMAIN seq : seq[i] = seq[j] => i = j
        \* The Vertex objects the first n polygons of the array reference,
        \* polygon after polygon
        RECURSIVE AllVertices(_)
        AllVertices(n) ==
            IF n = 0 THEN <<>> ELSE AllVertices(n - 1) \o mem.P[ret[n]].vertices
    IN  /\ Injective(ret)
        /\ Injective(AllVertices(Len(ret)))

\* Two different calls were made in sequence and the result has a vertex
\* that a split interpolated: its position is that of no vertex of the
\* library's solids
C11_Witness ==
    /\ Len(op) >= 2 /\ op[1] # op[2] /\ "inverse" \notin Range(op)
    /\ Len(ret) > 4
    /\ \E v \in VertexIds(mem, ret) :
           mem.V[v].pos \notin {Lib.m.V[i].pos : i \in DOMAIN Lib.m.V}

-----------------------------------------------------------------------------
(* C12 *)

\* The polygons stored in a subtree, none for no subtree
Stored(child) == IF IsSome(child) THEN AllPolygons(child[1]) ELSE <<>>

\* The BSP invariant at every node of the tree: its own polygons on its
\* plane, those of its front subtree not behind the plane, those of its
\* back subtree not in front of it.  ListTypes are the types, against the
\* plane of the node, of the vertices of the polygons of a list
RECURSIVE BSP(_, _)
BSP(m, node) ==
    LET ListTypes(polygons) ==
            UNION {Range(VertexTypes(m, node.plane[1], m.P[polygons[i]].vertices)) :
                   i \in DOMAIN polygons}
    IN  /\ IsSome(node.plane) =>
               /\ ListTypes(node.polygons) \subseteq {COPLANAR}
               /\ BACK \notin ListTypes(Stored(node.front))
               /\ FRONT \notin ListTypes(Stored(node.back))
        /\ IsSome(node.front) => BSP(m, node.front[1])
        /\ IsSome(node.back) => BSP(m, node.back[1])

\* C12: after new Node(polygons) and after each build, clipTo and invert
\* that union, subtract and intersect make, every node of both trees has its
\* own polygons on its plane, no vertex of a polygon of its front subtree
\* behind the plane and no vertex of a polygon of its back subtree in front
\* of it
C12_BSPInvariant == BSP(mem, self) /\ BSP(mem, arg)

\* A tree with both subtrees and polygons in each, after an invert that
\* followed a build onto the clipped tree
C12_Witness ==
    /\ op = <<>> /\ ret = "a.invert()"
    /\ IsSome(self.front) /\ IsSome(self.back)
    /\ Len(Stored(self.front)) > 1 /\ Len(Stored(self.back)) > 1
    /\ Len(AllPolygons(arg)) > 0

-----------------------------------------------------------------------------
(* C13 *)

\* C13: Node.build on a finite list of n planar polygons, each with three
\* vertices or more and a non-degenerate plane, terminates, on an empty
\* node and on an existing tree: it never exhausts the call stack; the tree
\* built from an empty node has depth at most n, the first polygon of every
\* call being stored at its node and the front and back lists passed down
\* being shorter than the list received
C13_BuildReturns ==
    LET \* In the first build on an empty root, each list passed down is
        \* shorter than the list the caller received
        ListsShrink ==
            ret = 1 => \A d \in 2..Len(arg) : Len(arg[d].polygons) < Len(arg[d - 1].polygons)
        \* In the first build on an empty root, a call that has split its
        \* first polygon has stored it at its node
        FirstStored ==
            ret = 1 =>
                \A d \in 1..Len(arg) :
                    arg[d].i > 1 => arg[d].polygons[1] \in Range(self[arg[d].node].polygons)
        \* The tree built from an empty root out of n >= 1 polygons has no
        \* node deeper than n, the root being at depth 1
        DepthAtMostN ==
            ret = 1 /\ Len(mem) > 0 => \A path \in DOMAIN self : Len(path) + 1 <= Len(mem)
    IN  /\ op # "RangeError"
        /\ ListsShrink
        /\ FirstStored
        /\ DepthAtMostN

=============================================================================
